---- MODULE Spec2Model ----
(***************************************************************************)
(* Xiangqi rules engine of js/pieces.js and js/game.js: the movement rules *)
(* (getPieceMoves), the position evaluator (findKing, isInCheck,           *)
(* isFlyingGeneral), the legality filter (getLegalMoves) and the Game      *)
(* state machine (reset, makeMove, undoMove).                              *)
(*                                                                         *)
(* A position on the board is the pair <<row, col>>.  The arrays of moves  *)
(* the code builds are read by membership and by length only in game.js,   *)
(* so they are modelled by the set of their elements.  The selection       *)
(* fields of Game (selectedPiece, validMoves) belong to the user interface *)
(* and are left out.                                                       *)
(***************************************************************************)
EXTENDS Integers, Sequences, FiniteSets, TLC

\* ------------------------------------------------------------------------
\* js/constants.js
\* ------------------------------------------------------------------------
COLS == 9
ROWS == 10

RED == "red"
BLACK == "black"
SIDE == {RED, BLACK}

KING == "king"
ADVISOR == "advisor"
ELEPHANT == "elephant"
HORSE == "horse"
CHARIOT == "chariot"
CANNON == "cannon"
SOLDIER == "soldier"

\* an empty cell (null in the code)
Null == [type |-> "none", side |-> "none"]

p(type, side) == [type |-> type, side |-> side]

RowIdx == 0 .. (ROWS - 1)
ColIdx == 0 .. (COLS - 1)

EmptyRow == [c \in ColIdx |-> Null]

BackRank(side) ==
    [c \in ColIdx |->
        CASE c \in {0, 8} -> p(CHARIOT, side)
          [] c \in {1, 7} -> p(HORSE, side)
          [] c \in {2, 6} -> p(ELEPHANT, side)
          [] c \in {3, 5} -> p(ADVISOR, side)
          [] OTHER -> p(KING, side)]

CannonRow(side) == [c \in ColIdx |-> IF c \in {1, 7} THEN p(CANNON, side) ELSE Null]

SoldierRow(side) == [c \in ColIdx |-> IF c \in {0, 2, 4, 6, 8} THEN p(SOLDIER, side) ELSE Null]

INITIAL_BOARD ==
    [r \in RowIdx |->
        CASE r = 0 -> BackRank(BLACK)
          [] r = 2 -> CannonRow(BLACK)
          [] r = 3 -> SoldierRow(BLACK)
          [] r = 6 -> SoldierRow(RED)
          [] r = 7 -> CannonRow(RED)
          [] r = 9 -> BackRank(RED)
          [] OTHER -> EmptyRow]

\* ------------------------------------------------------------------------
\* js/pieces.js
\* ------------------------------------------------------------------------
inBounds(row, col) == row >= 0 /\ row < ROWS /\ col >= 0 /\ col < COLS

inPalace(row, col, side) ==
    IF col < 3 \/ col > 5 THEN FALSE
    ELSE IF side = RED THEN row >= 7 /\ row <= 9
    ELSE row >= 0 /\ row <= 2

hasCrossedRiver(row, side) ==
    IF side = RED THEN row <= 4 ELSE row >= 5

Opp(side) == IF side = RED THEN BLACK ELSE RED

Min(a, b) == IF a < b THEN a ELSE b
Max(a, b) == IF a > b THEN a ELSE b

\* the test  !target || target.side !== side  made on every destination
FreeFor(board, nr, nc, side) == board[nr][nc] = Null \/ board[nr][nc].side # side

OrthoDirs == {<<0, 1>>, <<0, -1>>, <<1, 0>>, <<-1, 0>>}

\* getKingMoves without the test of the cells between the two kings
getKingMovesThroughPieces(board, row, col, side) ==
    LET oppSide == Opp(side)
        startR == IF oppSide = RED THEN 7 ELSE 0
        endR == IF oppSide = RED THEN 9 ELSE 2
        steps == {<<row + d[1], col + d[2]>> : d \in OrthoDirs}
    IN  {m \in steps : inPalace(m[1], m[2], side) /\ FreeFor(board, m[1], m[2], side)}
        \cup
        {<<r, col>> : r \in {rr \in startR .. endR :
            /\ board[rr][col] # Null
            /\ board[rr][col].type = KING
            /\ board[rr][col].side = oppSide}}

getKingMoves(board, row, col, side) ==
    LET oppSide == Opp(side)
        startR == IF oppSide = RED THEN 7 ELSE 0
        endR == IF oppSide = RED THEN 9 ELSE 2
        steps == {<<row + d[1], col + d[2]>> : d \in OrthoDirs}
    IN  {m \in steps : inPalace(m[1], m[2], side) /\ FreeFor(board, m[1], m[2], side)}
        \cup
        \* flying general: the opposing king on the same column, nothing between
        {<<r, col>> : r \in {rr \in startR .. endR :
            /\ board[rr][col] # Null
            /\ board[rr][col].type = KING
            /\ board[rr][col].side = oppSide
            /\ \A mid \in (Min(row, rr) + 1) .. (Max(row, rr) - 1) : board[mid][col] = Null}}

getAdvisorMoves(board, row, col, side) ==
    LET dirs == {<<1, 1>>, <<1, -1>>, <<-1, 1>>, <<-1, -1>>}
        steps == {<<row + d[1], col + d[2]>> : d \in dirs}
    IN  {m \in steps : inPalace(m[1], m[2], side) /\ FreeFor(board, m[1], m[2], side)}

\* getElephantMoves without the test of the river
getElephantMovesAcrossRiver(board, row, col, side) ==
    LET blocks == {<<1, 1>>, <<1, -1>>, <<-1, 1>>, <<-1, -1>>}
    IN  {<<row + 2 * b[1], col + 2 * b[2]>> : b \in {bb \in blocks :
            /\ inBounds(row + 2 * bb[1], col + 2 * bb[2])
            /\ board[row + bb[1]][col + bb[2]] = Null
            /\ FreeFor(board, row + 2 * bb[1], col + 2 * bb[2], side)}}

getElephantMoves(board, row, col, side) ==
    LET blocks == {<<1, 1>>, <<1, -1>>, <<-1, 1>>, <<-1, -1>>}
    IN  {<<row + 2 * b[1], col + 2 * b[2]>> : b \in {bb \in blocks :
            /\ inBounds(row + 2 * bb[1], col + 2 * bb[2])
            /\ ~hasCrossedRiver(row + 2 * bb[1], side)
            /\ board[row + bb[1]][col + bb[2]] = Null
            /\ FreeFor(board, row + 2 * bb[1], col + 2 * bb[2], side)}}

\* each pattern: the leg (block) cell and the two destinations behind it
HorsePatterns ==
    { [block |-> <<-1, 0>>, moves |-> {<<-2, -1>>, <<-2, 1>>}],
      [block |-> <<1, 0>>,  moves |-> {<<2, -1>>, <<2, 1>>}],
      [block |-> <<0, -1>>, moves |-> {<<-1, -2>>, <<1, -2>>}],
      [block |-> <<0, 1>>,  moves |-> {<<-1, 2>>, <<1, 2>>}] }

\* getHorseMoves without the test of the leg
getHorseMovesNoLeg(board, row, col, side) ==
    UNION { IF ~inBounds(row + pt.block[1], col + pt.block[2]) THEN {}
            ELSE {m \in {<<row + d[1], col + d[2]>> : d \in pt.moves} :
                    inBounds(m[1], m[2]) /\ FreeFor(board, m[1], m[2], side)}
          : pt \in HorsePatterns }

getHorseMoves(board, row, col, side) ==
    UNION { IF ~inBounds(row + pt.block[1], col + pt.block[2]) THEN {}
            ELSE IF board[row + pt.block[1]][col + pt.block[2]] # Null THEN {}
            ELSE {m \in {<<row + d[1], col + d[2]>> : d \in pt.moves} :
                    inBounds(m[1], m[2]) /\ FreeFor(board, m[1], m[2], side)}
          : pt \in HorsePatterns }

\* the loop of getChariotMoves without the break after a capture
RECURSIVE ChariotRayThrough(_, _, _, _, _, _)
ChariotRayThrough(board, nr, nc, dr, dc, side) ==
    IF ~inBounds(nr, nc) THEN {}
    ELSE IF board[nr][nc] = Null
         THEN {<<nr, nc>>} \cup ChariotRayThrough(board, nr + dr, nc + dc, dr, dc, side)
    ELSE IF board[nr][nc].side # side
         THEN {<<nr, nc>>} \cup ChariotRayThrough(board, nr + dr, nc + dc, dr, dc, side)
    ELSE {}

\* the while loop of getChariotMoves in one direction, from cell (nr, nc) on
RECURSIVE ChariotRay(_, _, _, _, _, _)
ChariotRay(board, nr, nc, dr, dc, side) ==
    IF ~inBounds(nr, nc) THEN {}
    ELSE IF board[nr][nc] = Null
         THEN {<<nr, nc>>} \cup ChariotRay(board, nr + dr, nc + dc, dr, dc, side)
    ELSE IF board[nr][nc].side # side THEN {<<nr, nc>>}
    ELSE {}

getChariotMoves(board, row, col, side) ==
    UNION {ChariotRay(board, row + d[1], col + d[2], d[1], d[2], side) : d \in OrthoDirs}

\* the loop of getCannonMoves taking the empty cells behind the platform as well
RECURSIVE CannonRayLandsBeyond(_, _, _, _, _, _, _)
CannonRayLandsBeyond(board, nr, nc, dr, dc, side, jumped) ==
    IF ~inBounds(nr, nc) THEN {}
    ELSE IF ~jumped
         THEN IF board[nr][nc] = Null
              THEN {<<nr, nc>>}
                   \cup CannonRayLandsBeyond(board, nr + dr, nc + dc, dr, dc, side, FALSE)
              ELSE CannonRayLandsBeyond(board, nr + dr, nc + dc, dr, dc, side, TRUE)
    ELSE IF board[nr][nc] # Null
         THEN IF board[nr][nc].side # side THEN {<<nr, nc>>} ELSE {}
    ELSE {<<nr, nc>>} \cup CannonRayLandsBeyond(board, nr + dr, nc + dc, dr, dc, side, TRUE)

\* the while loop of getCannonMoves in one direction, from cell (nr, nc) on
RECURSIVE CannonRay(_, _, _, _, _, _, _)
CannonRay(board, nr, nc, dr, dc, side, jumped) ==
    IF ~inBounds(nr, nc) THEN {}
    ELSE IF ~jumped
         THEN IF board[nr][nc] = Null
              THEN {<<nr, nc>>} \cup CannonRay(board, nr + dr, nc + dc, dr, dc, side, FALSE)
              ELSE CannonRay(board, nr + dr, nc + dc, dr, dc, side, TRUE)
    ELSE IF board[nr][nc] # Null
         THEN IF board[nr][nc].side # side THEN {<<nr, nc>>} ELSE {}
    ELSE CannonRay(board, nr + dr, nc + dc, dr, dc, side, TRUE)

getCannonMoves(board, row, col, side) ==
    UNION {CannonRay(board, row + d[1], col + d[2], d[1], d[2], side, FALSE) : d \in OrthoDirs}

\* getSoldierMoves with the sideways steps allowed before the river as well
getSoldierMovesBeforeRiver(board, row, col, side) ==
    LET forward == IF side = RED THEN -1 ELSE 1
        nr == row + forward
    IN  (IF inBounds(nr, col) /\ FreeFor(board, nr, col, side) THEN {<<nr, col>>} ELSE {})
        \cup
        {<<row, nc>> : nc \in {cc \in {col - 1, col + 1} :
                    inBounds(row, cc) /\ FreeFor(board, row, cc, side)}}

getSoldierMoves(board, row, col, side) ==
    LET forward == IF side = RED THEN -1 ELSE 1
        crossed == hasCrossedRiver(row, side)
        nr == row + forward
    IN  (IF inBounds(nr, col) /\ FreeFor(board, nr, col, side) THEN {<<nr, col>>} ELSE {})
        \cup
        (IF crossed
         THEN {<<row, nc>> : nc \in {cc \in {col - 1, col + 1} :
                    inBounds(row, cc) /\ FreeFor(board, row, cc, side)}}
         ELSE {})

getPieceMoves(board, row, col) ==
    LET piece == board[row][col]
    IN  IF piece = Null THEN {}
        ELSE CASE piece.type = KING -> getKingMoves(board, row, col, piece.side)
               [] piece.type = ADVISOR -> getAdvisorMoves(board, row, col, piece.side)
               [] piece.type = ELEPHANT -> getElephantMoves(board, row, col, piece.side)
               [] piece.type = HORSE -> getHorseMoves(board, row, col, piece.side)
               [] piece.type = CHARIOT -> getChariotMoves(board, row, col, piece.side)
               [] piece.type = CANNON -> getCannonMoves(board, row, col, piece.side)
               [] piece.type = SOLDIER -> getSoldierMoves(board, row, col, piece.side)
               [] OTHER -> {}

\* ------------------------------------------------------------------------
\* js/game.js : class Game
\* ------------------------------------------------------------------------
VARIABLES
    board,              \* this.board
    currentTurn,        \* this.currentTurn
    lastMove,           \* this.lastMove
    moveHistory,        \* this.moveHistory
    gameOver,           \* this.gameOver
    winner,             \* this.winner
    loseReason,         \* this.loseReason
    inCheck,            \* this.inCheck
    consecutiveChecks,  \* this.consecutiveChecks
    checkHistory,       \* this.checkHistory
    checkLimitReached,  \* this.checkLimitReached
    lastCall,           \* the last method called on the game, what it returned or raised
    before,             \* the fields as they were when the last accepted makeMove was called
    objects,            \* the row arrays behind this.board and behind the boards kept in moveHistory
    store,              \* what localStorage holds under the save key
    probe,              \* the last call of a move generator or of isInCheck on a position, with its result
    app,                \* js/main.js: the fields of ChineseChessApp in a game against the bot, and its pending callbacks
    server              \* server.js: the rooms map, the sockets and what was emitted to them

gameFields == <<board, currentTurn, lastMove, moveHistory, gameOver, winner, loseReason,
                inCheck, consecutiveChecks, checkHistory, checkLimitReached>>

vars == <<board, currentTurn, lastMove, moveHistory, gameOver, winner, loseReason,
          inCheck, consecutiveChecks, checkHistory, checkLimitReached, lastCall, before,
          objects, store, probe, app, server>>

\* what the game engine alone does not touch
outside == <<objects, store, probe, app, server>>

\* null of winner and loseReason; null of lastMove; null of findKing
NullStr == "null"
\* no exception left the call
NoError == "none"
NoMove == [fromRow |-> -1, fromCol |-> -1, toRow |-> -1, toCol |-> -1]
NoPos == <<-1, -1>>

\* the fields of the game at this moment
Snapshot ==
    [taken |-> TRUE, board |-> board, currentTurn |-> currentTurn, lastMove |-> lastMove,
     moveHistory |-> moveHistory, gameOver |-> gameOver, winner |-> winner,
     loseReason |-> loseReason, inCheck |-> inCheck,
     consecutiveChecks |-> consecutiveChecks, checkHistory |-> checkHistory,
     checkLimitReached |-> checkLimitReached]
NoSnapshot == [taken |-> FALSE]
\* the row arrays are not followed
NoObjects == [followed |-> FALSE]
\* nothing saved
NoStore == [saved |-> FALSE]
\* nothing evaluated yet
NoProbe == [fn |-> "none"]
\* no game screen is shown
NoApp == [mode |-> NullStr]
\* the server is not looked at
NoServer == [listening |-> FALSE]

cloneBoard(b) == [r \in RowIdx |-> [c \in ColIdx |-> b[r][c]]]

KingCells(b, side) ==
    {pos \in RowIdx \X ColIdx :
        /\ b[pos[1]][pos[2]] # Null
        /\ b[pos[1]][pos[2]].type = KING
        /\ b[pos[1]][pos[2]].side = side}

\* the first king met scanning rows, then columns
findKing(b, side) ==
    LET cells == KingCells(b, side)
    IN  IF cells = {} THEN NoPos
        ELSE CHOOSE k \in cells :
                \A o \in cells : k[1] < o[1] \/ (k[1] = o[1] /\ k[2] <= o[2])

isFlyingGeneral(b) ==
    LET redKing == findKing(b, RED)
        blackKing == findKing(b, BLACK)
    IN  IF redKing = NoPos \/ blackKing = NoPos THEN FALSE
        ELSE IF redKing[2] # blackKing[2] THEN FALSE
        ELSE \A r \in (blackKing[1] + 1) .. (redKing[1] - 1) : b[r][redKing[2]] = Null

\* isInCheck scanning the pieces of side itself instead of the opponent's
isInCheckOwnPieces(b, side) ==
    LET king == findKing(b, side)
    IN  IF king = NoPos THEN TRUE
        ELSE \E r \in RowIdx, c \in ColIdx :
                /\ b[r][c] # Null
                /\ b[r][c].side = side
                /\ king \in getPieceMoves(b, r, c)

isInCheck(b, side) ==
    LET king == findKing(b, side)
        oppSide == Opp(side)
    IN  IF king = NoPos THEN TRUE
        ELSE \E r \in RowIdx, c \in ColIdx :
                /\ b[r][c] # Null
                /\ b[r][c].side = oppSide
                /\ king \in getPieceMoves(b, r, c)

\* the board after applyMove has mutated it
applyMove(b, fromRow, fromCol, toRow, toCol) ==
    LET moved == [b EXCEPT ![toRow][toCol] = b[fromRow][fromCol]]
    IN  [moved EXCEPT ![fromRow][fromCol] = Null]

\* `${piece.type}_${row}_${col}`: the type names hold no digit and no underscore and
\* the coordinates are single digits, so two keys are equal exactly when the three parts are
PieceKey(type, row, col) == <<type, row, col>>

\* CountRepeats comparing the recorded row with the column and the column with the row
RECURSIVE CountRepeatsSwapped(_, _, _, _)
CountRepeatsSwapped(hist, pieceKey, toRow, toCol) ==
    IF hist = <<>> THEN 0
    ELSE (IF /\ Head(hist).pieceKey = pieceKey
             /\ Head(hist).toRow = toCol
             /\ Head(hist).toCol = toRow
          THEN 1 ELSE 0) + CountRepeatsSwapped(Tail(hist), pieceKey, toRow, toCol)

\* Array.filter(...).length over a check history
RECURSIVE CountRepeats(_, _, _, _)
CountRepeats(hist, pieceKey, toRow, toCol) ==
    IF hist = <<>> THEN 0
    ELSE (IF /\ Head(hist).pieceKey = pieceKey
             /\ Head(hist).toRow = toRow
             /\ Head(hist).toCol = toCol
          THEN 1 ELSE 0) + CountRepeats(Tail(hist), pieceKey, toRow, toCol)

\* getLegalMoves without the test of the mover's own king
LegalMovesOfUnfiltered(b, cc, ch, row, col) ==
    LET piece == b[row][col]
        oppSide == Opp(piece.side)
        checkHist == ch[piece.side]
        mustAvoidRepeat == cc[piece.side] >= 3
        Kept(move) ==
            LET testBoard == applyMove(cloneBoard(b), row, col, move[1], move[2])
            IN  IF mustAvoidRepeat /\ isInCheck(testBoard, oppSide)
                THEN ~(CountRepeats(checkHist, PieceKey(piece.type, row, col),
                                    move[1], move[2]) >= 1)
                ELSE TRUE
    IN  IF piece = Null THEN {}
        ELSE {move \in getPieceMoves(b, row, col) : Kept(move)}

\* getLegalMoves on a game whose board, consecutiveChecks and checkHistory are b, cc, ch
LegalMovesOf(b, cc, ch, row, col) ==
    LET piece == b[row][col]
        oppSide == Opp(piece.side)
        checkHist == ch[piece.side]
        mustAvoidRepeat == cc[piece.side] >= 3
        Kept(move) ==
            LET testBoard == applyMove(cloneBoard(b), row, col, move[1], move[2])
            IN  IF isInCheck(testBoard, piece.side) \/ isFlyingGeneral(testBoard) THEN FALSE
                ELSE IF mustAvoidRepeat /\ isInCheck(testBoard, oppSide)
                     THEN ~(CountRepeats(checkHist, PieceKey(piece.type, row, col),
                                         move[1], move[2]) >= 1)
                ELSE TRUE
    IN  IF piece = Null THEN {}
        ELSE {move \in getPieceMoves(b, row, col) : Kept(move)}

getLegalMoves(row, col) == LegalMovesOf(board, consecutiveChecks, checkHistory, row, col)

\* getAllLegalMoves collecting the pseudo-legal moves, the legality filter left out
AllPseudoMovesOf(b, cc, ch, side) ==
    UNION { {[fromRow |-> r, fromCol |-> c, toRow |-> m[1], toCol |-> m[2]] :
                m \in getPieceMoves(b, r, c)}
          : <<r, c>> \in {pos \in RowIdx \X ColIdx :
                b[pos[1]][pos[2]] # Null /\ b[pos[1]][pos[2]].side = side} }

AllLegalMovesOf(b, cc, ch, side) ==
    UNION { {[fromRow |-> r, fromCol |-> c, toRow |-> m[1], toCol |-> m[2]] :
                m \in LegalMovesOf(b, cc, ch, r, c)}
          : <<r, c>> \in {pos \in RowIdx \X ColIdx :
                b[pos[1]][pos[2]] # Null /\ b[pos[1]][pos[2]].side = side} }

getAllLegalMoves(side) == AllLegalMovesOf(board, consecutiveChecks, checkHistory, side)

\* ------------------------------------------------------------------------
\* js/constants.js, js/game.js : class AI
\* ------------------------------------------------------------------------
PIECE_VALUES ==
    [king |-> 10000, chariot |-> 900, cannon |-> 450, horse |-> 400,
     elephant |-> 200, advisor |-> 200, soldier |-> 100]

SOLDIER_ADVANCE_BONUS == 80

MAX_DEPTH == 3

\* POSITION_BONUS[type][row + 1][col + 1], for the two types that have a table
POSITION_BONUS ==
    [horse |->
        << <<0, -4, 0, 0, 0, 0, 0, -4, 0>>,
           <<0, 2, 4, 4, 4, 4, 4, 2, 0>>,
           <<0, 2, 4, 6, 6, 6, 4, 2, 0>>,
           <<0, 2, 6, 8, 8, 8, 6, 2, 0>>,
           <<0, 4, 6, 8, 10, 8, 6, 4, 0>>,
           <<0, 4, 6, 8, 10, 8, 6, 4, 0>>,
           <<0, 2, 6, 8, 8, 8, 6, 2, 0>>,
           <<0, 2, 4, 6, 6, 6, 4, 2, 0>>,
           <<0, 2, 4, 4, 4, 4, 4, 2, 0>>,
           <<0, -4, 0, 0, 0, 0, 0, -4, 0>> >>,
     cannon |->
        << <<0, 0, 2, 4, 4, 4, 2, 0, 0>>,
           <<0, 2, 4, 4, 4, 4, 4, 2, 0>>,
           <<2, 2, 2, 2, 2, 2, 2, 2, 2>>,
           <<0, 0, 0, 0, 0, 0, 0, 0, 0>>,
           <<0, 0, 0, 0, 0, 0, 0, 0, 0>>,
           <<0, 0, 0, 0, 0, 0, 0, 0, 0>>,
           <<0, 0, 0, 0, 0, 0, 0, 0, 0>>,
           <<2, 2, 2, 2, 2, 2, 2, 2, 2>>,
           <<0, 2, 4, 4, 4, 4, 4, 2, 0>>,
           <<0, 0, 2, 4, 4, 4, 2, 0, 0>> >>]

\* Infinity and -Infinity: beyond every score minimax and evaluate can return
Infinity == 1000000

\* The value of a set of one element.  The loops below bind what they have
\* computed, as the code does with const and let, as the one element of a set
\* {e : x \in {v}}, so that it is computed once.
TheOne(S) == CHOOSE x \in S : TRUE

\* The arrays of moves are read in order by the search.  A generator pushes its
\* destinations in the order of its direction tables; PushTargets lists, in that
\* order, the cells the generator of the piece on (row, col) looks at.
PushTargets(b, row, col) ==
    LET piece == b[row][col]
        At(offsets) == [i \in 1 .. Len(offsets) |-> <<row + offsets[i][1], col + offsets[i][2]>>]
        Ray(d) == [k \in 1 .. 9 |-> <<row + k * d[1], col + k * d[2]>>]
        Rays == Ray(<<0, 1>>) \o Ray(<<0, -1>>) \o Ray(<<1, 0>>) \o Ray(<<-1, 0>>)
        forward == IF piece.side = RED THEN -1 ELSE 1
        startR == IF Opp(piece.side) = RED THEN 7 ELSE 0
    IN  CASE piece.type = KING ->
                At(<< <<0, 1>>, <<0, -1>>, <<1, 0>>, <<-1, 0>> >>)
                \o [i \in 1 .. 3 |-> <<startR + i - 1, col>>]
          [] piece.type = ADVISOR -> At(<< <<1, 1>>, <<1, -1>>, <<-1, 1>>, <<-1, -1>> >>)
          [] piece.type = ELEPHANT -> At(<< <<2, 2>>, <<2, -2>>, <<-2, 2>>, <<-2, -2>> >>)
          [] piece.type = HORSE ->
                At(<< <<-2, -1>>, <<-2, 1>>, <<2, -1>>, <<2, 1>>,
                      <<-1, -2>>, <<1, -2>>, <<-1, 2>>, <<1, 2>> >>)
          [] piece.type = CHARIOT -> Rays
          [] piece.type = CANNON -> Rays
          [] piece.type = SOLDIER -> At(<< <<forward, 0>>, <<0, -1>>, <<0, 1>> >>)
          [] OTHER -> <<>>

\* the moves of the piece on (row, col) to the destinations in dests, in push order
MovesInPushOrder(b, row, col, dests) ==
    LET kept == SelectSeq(PushTargets(b, row, col), LAMBDA t : t \in dests)
    IN  [i \in 1 .. Len(kept) |->
            [fromRow |-> row, fromCol |-> col, toRow |-> kept[i][1], toCol |-> kept[i][2]]]

\* the two nested loops over r and c; dests gives for the cell of each piece of the
\* side the destinations kept for it
CollectMoves(b, dests) ==
    TheOne({
        LET From(r, c) == IF <<r, c>> \in held
                          THEN MovesInPushOrder(b, r, c, dests[<<r, c>>])
                          ELSE <<>>
            Row(r) == From(r, 0) \o From(r, 1) \o From(r, 2) \o From(r, 3) \o From(r, 4)
                      \o From(r, 5) \o From(r, 6) \o From(r, 7) \o From(r, 8)
        IN  Row(0) \o Row(1) \o Row(2) \o Row(3) \o Row(4)
            \o Row(5) \o Row(6) \o Row(7) \o Row(8) \o Row(9)
        : held \in {DOMAIN dests} })

CellsOf(b, side) ==
    {pos \in RowIdx \X ColIdx : b[pos[1]][pos[2]] # Null /\ b[pos[1]][pos[2]].side = side}

\* the array getAllLegalMoves returns
AllLegalMovesInOrder(b, cc, ch, side) ==
    CollectMoves(b, [pos \in CellsOf(b, side) |-> LegalMovesOf(b, cc, ch, pos[1], pos[2])])

\* moves.sort((a, b) => valB - valA): Array.prototype.sort is stable, so the moves
\* come out grouped by the value of the piece taken, the highest first, each group
\* in the order it had
SortCapturesFirst(b, moves) ==
    TheOne({
        LET val(m) == IF b[m.toRow][m.toCol] # Null
                      THEN PIECE_VALUES[b[m.toRow][m.toCol].type]
                      ELSE 0
            Group(v) == SelectSeq(unsorted, LAMBDA m : val(m) = v)
        IN  Group(10000) \o Group(900) \o Group(450) \o Group(400) \o Group(200)
            \o Group(100) \o Group(0)
        : unsorted \in {moves} })

AI_applyMove(b, fromRow, fromCol, toRow, toCol) ==
    LET moved == [b EXCEPT ![toRow][toCol] = b[fromRow][fromCol]]
    IN  [moved EXCEPT ![fromRow][fromCol] = Null]

AI_cloneBoard(b) == [r \in RowIdx |-> [c \in ColIdx |-> b[r][c]]]

\* the loops of AI.isInCheck stop at the first king of side they meet
AI_isInCheck(b, side) ==
    LET cells == KingCells(b, side)
        king == CHOOSE k \in cells :
                    \A o \in cells : k[1] < o[1] \/ (k[1] = o[1] /\ k[2] <= o[2])
        oppSide == Opp(side)
    IN  IF cells = {} THEN TRUE
        ELSE \E r \in RowIdx, c \in ColIdx :
                /\ b[r][c] # Null
                /\ b[r][c].side = oppSide
                /\ king \in getPieceMoves(b, r, c)

\* the loops of AI.isFlyingGeneral keep the last king of each side they meet
AI_isFlyingGeneral(b) ==
    LET Last(cells) == CHOOSE k \in cells :
                            \A o \in cells : k[1] > o[1] \/ (k[1] = o[1] /\ k[2] >= o[2])
        reds == KingCells(b, RED)
        blacks == KingCells(b, BLACK)
    IN  IF reds = {} \/ blacks = {} THEN FALSE
        ELSE IF Last(reds)[2] # Last(blacks)[2] THEN FALSE
        ELSE \A r \in (Last(blacks)[1] + 1) .. (Last(reds)[1] - 1) : b[r][Last(reds)[2]] = Null

\* the destinations getAllMovesForBoard keeps for the piece on (r, c)
AI_KeptMoves(b, r, c, side) ==
    {m \in getPieceMoves(b, r, c) :
        LET testBoard == AI_applyMove(AI_cloneBoard(b), r, c, m[1], m[2])
        IN  ~AI_isInCheck(testBoard, side) /\ ~AI_isFlyingGeneral(testBoard)}

getAllMovesForBoard(b, side) ==
    SortCapturesFirst(b,
        CollectMoves(b, [pos \in CellsOf(b, side) |-> AI_KeptMoves(b, pos[1], pos[2], side)]))

\* score += value or score -= value for the piece on (r, c), over the two nested
\* loops
evaluate(b, aiSide) ==
    LET Of(r, c) ==
            LET piece == b[r][c]
                bonus == IF piece.type \in DOMAIN POSITION_BONUS
                         THEN POSITION_BONUS[piece.type][r + 1][c + 1]
                         ELSE 0
                advance == IF piece.type # SOLDIER THEN 0
                           ELSE IF piece.side = RED /\ r <= 4
                                THEN SOLDIER_ADVANCE_BONUS + (4 - r) * 10
                           ELSE IF piece.side = BLACK /\ r >= 5
                                THEN SOLDIER_ADVANCE_BONUS + (r - 5) * 10
                           ELSE 0
                value == PIECE_VALUES[piece.type] + bonus + advance
            IN  IF piece = Null THEN 0
                ELSE IF piece.side = aiSide THEN value
                ELSE 0 - value
        Row(r) == Of(r, 0) + Of(r, 1) + Of(r, 2) + Of(r, 3) + Of(r, 4)
                  + Of(r, 5) + Of(r, 6) + Of(r, 7) + Of(r, 8)
    IN  Row(0) + Row(1) + Row(2) + Row(3) + Row(4)
        + Row(5) + Row(6) + Row(7) + Row(8) + Row(9)

RECURSIVE minimax(_, _, _, _, _, _)
RECURSIVE MaxLoop(_, _, _, _, _, _, _, _)
RECURSIVE MinLoop(_, _, _, _, _, _, _, _)

\* the for loop of the maximizing branch, from moves[i] on
MaxLoop(b, moves, i, depth, alpha, beta, maxEval, aiSide) ==
    IF i > Len(moves) THEN maxEval
    ELSE TheOne({
            IF beta <= new.alpha THEN new.maxEval
            ELSE MaxLoop(b, moves, i + 1, depth, new.alpha, beta, new.maxEval, aiSide)
            : new \in {[maxEval |-> Max(maxEval, evalScore), alpha |-> Max(alpha, evalScore)]
                       : evalScore \in
                           {minimax(newBoard, depth - 1, alpha, beta, FALSE, aiSide)
                            : newBoard \in
                                {AI_applyMove(AI_cloneBoard(b), moves[i].fromRow,
                                              moves[i].fromCol, moves[i].toRow,
                                              moves[i].toCol)}}} })


\* the for loop of the minimizing branch, from moves[i] on
MinLoop(b, moves, i, depth, alpha, beta, minEval, aiSide) ==
    IF i > Len(moves) THEN minEval
    ELSE TheOne({
            IF new.beta <= alpha THEN new.minEval
            ELSE MinLoop(b, moves, i + 1, depth, alpha, new.beta, new.minEval, aiSide)
            : new \in {[minEval |-> Min(minEval, evalScore), beta |-> Min(beta, evalScore)]
                       : evalScore \in
                           {minimax(newBoard, depth - 1, alpha, beta, TRUE, aiSide)
                            : newBoard \in
                                {AI_applyMove(AI_cloneBoard(b), moves[i].fromRow,
                                              moves[i].fromCol, moves[i].toRow,
                                              moves[i].toCol)}}} })

minimax(b, depth, alpha, beta, isMaximizing, aiSide) ==
    IF depth = 0 THEN evaluate(b, aiSide)
    ELSE TheOne({
            IF Len(moves) = 0
            THEN (IF isMaximizing THEN -99999 + (MAX_DEPTH - depth)
                  ELSE 99999 - (MAX_DEPTH - depth))
            ELSE IF isMaximizing
                 THEN MaxLoop(b, moves, 1, depth, alpha, beta, 0 - Infinity, aiSide)
                 ELSE MinLoop(b, moves, 1, depth, alpha, beta, Infinity, aiSide)
            : moves \in {getAllMovesForBoard(b, IF isMaximizing THEN aiSide
                                                ELSE Opp(aiSide))} })

\* the for loop of getBestMove, from moves[i] on
\* the loop of getBestMove keeping the last of the moves of equal score
RECURSIVE RootLoopLastBest(_, _, _, _, _, _)
RootLoopLastBest(b, moves, i, bestScore, bestMove, aiSide) ==
    IF i > Len(moves) THEN bestMove
    ELSE TheOne({
            IF score >= bestScore
            THEN RootLoopLastBest(b, moves, i + 1, score, moves[i], aiSide)
            ELSE RootLoopLastBest(b, moves, i + 1, bestScore, bestMove, aiSide)
            : score \in {minimax(child, MAX_DEPTH - 1, 0 - Infinity, Infinity, FALSE, aiSide)
                         : child \in {AI_applyMove(cloneBoard(b), moves[i].fromRow,
                                                   moves[i].fromCol, moves[i].toRow,
                                                   moves[i].toCol)}} })

RECURSIVE RootLoop(_, _, _, _, _, _)
RootLoop(b, moves, i, bestScore, bestMove, aiSide) ==
    IF i > Len(moves) THEN bestMove
    ELSE TheOne({
            IF score > bestScore
            THEN RootLoop(b, moves, i + 1, score, moves[i], aiSide)
            ELSE RootLoop(b, moves, i + 1, bestScore, bestMove, aiSide)
            : score \in {minimax(child, MAX_DEPTH - 1, 0 - Infinity, Infinity, FALSE, aiSide)
                         : child \in {AI_applyMove(cloneBoard(b), moves[i].fromRow,
                                                   moves[i].fromCol, moves[i].toRow,
                                                   moves[i].toCol)}} })

\* a getBestMove that takes the moves of the pieces as they come, the ones that
\* leave the own king attacked among them
BestMoveOfPseudoLegal(b, cc, ch, aiSide) ==
    TheOne({
        IF Len(moves) = 0 THEN NoMove
        ELSE RootLoop(b, moves, 1, 0 - Infinity, moves[1], aiSide)
        : moves \in {SortCapturesFirst(b,
                        CollectMoves(b, [pos \in CellsOf(b, aiSide) |->
                                            getPieceMoves(b, pos[1], pos[2])]))} })

\* what the promise of getBestMove resolves to, for an AI of side aiSide and a game
\* whose board, consecutiveChecks and checkHistory are b, cc, ch: NoMove stands for
\* null
BestMoveOf(b, cc, ch, aiSide) ==
    TheOne({
        IF Len(moves) = 0 THEN NoMove
        ELSE RootLoop(b, moves, 1, 0 - Infinity, moves[1], aiSide)
        : moves \in {SortCapturesFirst(b, AllLegalMovesInOrder(b, cc, ch, aiSide))} })

\* ------------------------------------------------------------------------
\* Bounds of the model
\* ------------------------------------------------------------------------
\* makeMove is called only while fewer than MaxMoves moves are recorded
MaxMoves == 6

\* the board holding exactly the pieces of pl, a set of <<row, col, piece>>
BoardOf(pl) ==
    [r \in RowIdx |-> [c \in ColIdx |->
        IF \E x \in pl : x[1] = r /\ x[2] = c
        THEN (CHOOSE x \in pl : x[1] = r /\ x[2] = c)[3]
        ELSE Null]]

\* A chariot ending: the red king (9,3) is hemmed in by the black chariots on row 8
\* and on column 4, the red chariot harasses the black king in its palace.
\* Red is to move and neither king is attacked.
ChariotEnding ==
    BoardOf({ <<9, 3, p(KING, RED)>>, <<1, 5, p(CHARIOT, RED)>>,
              <<0, 4, p(KING, BLACK)>>, <<8, 8, p(CHARIOT, BLACK)>>,
              <<7, 4, p(CHARIOT, BLACK)>> })

\* The positions play starts from: the position reset() sets up, and a position of
\* a game in progress with red to move, the moves that led to it left out of
\* moveHistory (an even number of them, none of the last two a check).
StartBoards == {INITIAL_BOARD, ChariotEnding}

\* the cells makeMove is called with
InputSquares ==
    { <<0, 4>>, <<0, 5>>, <<1, 4>>, <<1, 5>>, <<2, 4>>, <<2, 5>>,
      <<9, 3>>, <<8, 4>> }

\* ------------------------------------------------------------------------
\* js/game.js : reset, makeMove, undoMove
\* ------------------------------------------------------------------------
\* the game as the constructor leaves it
NewGame ==
    /\ board \in {cloneBoard(b) : b \in StartBoards}
    /\ currentTurn = RED
    /\ lastMove = NoMove
    /\ moveHistory = <<>>
    /\ gameOver = FALSE
    /\ winner = NullStr
    /\ loseReason = NullStr
    /\ inCheck = FALSE
    /\ consecutiveChecks = [red |-> 0, black |-> 0]
    /\ checkHistory = [red |-> <<>>, black |-> <<>>]
    /\ checkLimitReached = FALSE
    /\ lastCall = [op |-> "reset", ret |-> TRUE, error |-> NoError]
    /\ before = NoSnapshot

Init ==
    /\ NewGame
    /\ objects = NoObjects
    /\ store = NoStore
    /\ probe = NoProbe
    /\ app = NoApp
    /\ server = NoServer

\* HistoryEntry keeping the live counters object instead of a copy of it: the record
\* then shows the counters as the move leaves them
HistoryEntryLiveCounters(fromRow, fromCol, toRow, toCol) ==
    [fromRow |-> fromRow, fromCol |-> fromCol, toRow |-> toRow, toCol |-> toCol,
     piece |-> board[fromRow][fromCol],
     captured |-> board[toRow][toCol],
     board |-> cloneBoard(board),
     prevConsecutiveChecks |->
        (IF isInCheck(applyMove(board, fromRow, fromCol, toRow, toCol), Opp(currentTurn))
         THEN [consecutiveChecks EXCEPT ![currentTurn] = @ + 1]
         ELSE [consecutiveChecks EXCEPT ![currentTurn] = 0]),
     prevCheckHistory |-> checkHistory]

\* the record makeMove pushes on moveHistory before it touches the board
HistoryEntry(fromRow, fromCol, toRow, toCol) ==
    [fromRow |-> fromRow, fromCol |-> fromCol, toRow |-> toRow, toCol |-> toCol,
     piece |-> board[fromRow][fromCol],
     captured |-> board[toRow][toCol],
     board |-> cloneBoard(board),
     prevConsecutiveChecks |-> consecutiveChecks,
     prevCheckHistory |-> checkHistory]

\* the turn left with the side that has just moved
SwitchTurnForgotten(turn) == turn

\* this.currentTurn === SIDE.RED ? SIDE.BLACK : SIDE.RED
SwitchTurn(turn) == IF turn = RED THEN BLACK ELSE RED

\* TrackChecks without the reset after a move that gives no check
TrackChecksNoReset(cc, movingSide, chk) ==
    IF chk THEN [cc EXCEPT ![movingSide] = @ + 1]
    ELSE cc

\* consecutiveChecks after a move of movingSide; chk: the opponent is now in check
TrackChecks(cc, movingSide, chk) ==
    IF chk THEN [cc EXCEPT ![movingSide] = @ + 1]
    ELSE [cc EXCEPT ![movingSide] = 0]

\* TrackHistory without the clearing after a move that gives no check
TrackHistoryNoClear(ch, movingSide, chk, pieceKey, toRow, toCol) ==
    IF chk
    THEN [ch EXCEPT ![movingSide] =
            Append(@, [pieceKey |-> pieceKey, toRow |-> toRow, toCol |-> toCol])]
    ELSE ch

\* checkHistory after a move of movingSide
TrackHistory(ch, movingSide, chk, pieceKey, toRow, toCol) ==
    IF chk
    THEN [ch EXCEPT ![movingSide] =
            Append(@, [pieceKey |-> pieceKey, toRow |-> toRow, toCol |-> toCol])]
    ELSE [ch EXCEPT ![movingSide] = <<>>]

\* a rejection that comes after the turn was switched
RejectMoveAfterSwitch ==
    /\ lastCall' = [op |-> "makeMove", ret |-> FALSE, error |-> NoError]
    /\ before' = NoSnapshot
    /\ currentTurn' = SwitchTurn(currentTurn)
    /\ UNCHANGED <<board, lastMove, moveHistory, gameOver, winner, loseReason,
                   inCheck, consecutiveChecks, checkHistory, checkLimitReached>>

\* the three early  return false  of makeMove
RejectMove ==
    /\ lastCall' = [op |-> "makeMove", ret |-> FALSE, error |-> NoError]
    /\ before' = NoSnapshot
    /\ UNCHANGED gameFields

\* this.board[fromRow] is undefined for a row that is no index of the board, and
\* reading [fromCol] of it raises a TypeError before any field is written
RaiseTypeError ==
    /\ lastCall' = [op |-> "makeMove", ret |-> FALSE, error |-> "TypeError"]
    /\ before' = NoSnapshot
    /\ UNCHANGED gameFields

makeMove(fromRow, fromCol, toRow, toCol) ==
    LET piece == board[fromRow][fromCol]
        legalMoves == getLegalMoves(fromRow, fromCol)
        isLegal == \E m \in legalMoves : m[1] = toRow /\ m[2] = toCol
        newBoard == applyMove(board, fromRow, fromCol, toRow, toCol)
        newTurn == SwitchTurn(currentTurn)
        newInCheck == isInCheck(newBoard, newTurn)
        movingSide == piece.side
        pieceKey == PieceKey(piece.type, fromRow, fromCol)
        newChecks == TrackChecks(consecutiveChecks, movingSide, newInCheck)
        newHistory == TrackHistory(checkHistory, movingSide, newInCheck, pieceKey, toRow, toCol)
        newLimit == newChecks[newTurn] >= 3
        hasLegalMoves == Cardinality(AllLegalMovesOf(newBoard, newChecks, newHistory, newTurn)) > 0
    IN  /\ Len(moveHistory) < MaxMoves
        /\ IF gameOver THEN RejectMove
           ELSE IF fromRow \notin RowIdx THEN RaiseTypeError
           ELSE IF fromCol \notin ColIdx THEN RejectMove
           ELSE IF piece = Null \/ piece.side # currentTurn THEN RejectMove
           ELSE IF ~isLegal THEN RejectMove
           ELSE /\ moveHistory' = Append(moveHistory, HistoryEntry(fromRow, fromCol, toRow, toCol))
                /\ board' = newBoard
                /\ lastMove' = [fromRow |-> fromRow, fromCol |-> fromCol,
                                toRow |-> toRow, toCol |-> toCol]
                /\ currentTurn' = newTurn
                /\ inCheck' = newInCheck
                /\ consecutiveChecks' = newChecks
                /\ checkHistory' = newHistory
                /\ checkLimitReached' = newLimit
                /\ gameOver' = (IF ~hasLegalMoves THEN TRUE ELSE gameOver)
                /\ winner' = (IF ~hasLegalMoves
                              THEN (IF newTurn = RED THEN BLACK ELSE RED)
                              ELSE winner)
                /\ loseReason' = (IF ~hasLegalMoves
                                  THEN (IF newLimit THEN "perpetual-check" ELSE "checkmate")
                                  ELSE loseReason)
                /\ lastCall' = [op |-> "makeMove", ret |-> TRUE, error |-> NoError]
                /\ before' = Snapshot

\* undoMove answering true although there was no move to take back
RejectUndoReturnsTrue ==
    /\ lastCall' = [op |-> "undoMove", ret |-> TRUE, error |-> NoError]
    /\ before' = NoSnapshot
    /\ UNCHANGED gameFields

\* if (this.moveHistory.length === 0) return false
RejectUndo ==
    /\ lastCall' = [op |-> "undoMove", ret |-> FALSE, error |-> NoError]
    /\ before' = NoSnapshot
    /\ UNCHANGED gameFields

undoMove ==
    IF Len(moveHistory) = 0
    THEN RejectUndo
    ELSE LET lastEntry == moveHistory[Len(moveHistory)]
             popped == SubSeq(moveHistory, 1, Len(moveHistory) - 1)
             turn == lastEntry.piece.side
         IN  /\ moveHistory' = popped
             /\ board' = lastEntry.board
             /\ currentTurn' = turn
             /\ gameOver' = FALSE
             /\ winner' = NullStr
             /\ loseReason' = NullStr
             /\ consecutiveChecks' = lastEntry.prevConsecutiveChecks
             /\ checkHistory' = lastEntry.prevCheckHistory
             /\ checkLimitReached' = (lastEntry.prevConsecutiveChecks[turn] >= 3)
             /\ lastMove' = (IF Len(popped) > 0
                             THEN LET prev == popped[Len(popped)]
                                  IN  [fromRow |-> prev.fromRow, fromCol |-> prev.fromCol,
                                       toRow |-> prev.toRow, toCol |-> prev.toCol]
                             ELSE NoMove)
             /\ inCheck' = isInCheck(lastEntry.board, turn)
             /\ lastCall' = [op |-> "undoMove", ret |-> TRUE, error |-> NoError]
             /\ before' = NoSnapshot

Next ==
    \/ \E from \in InputSquares, to \in InputSquares :
          makeMove(from[1], from[2], to[1], to[2]) /\ UNCHANGED outside
    \/ undoMove /\ UNCHANGED outside

Spec == Init /\ [][Next]_vars

\* cells outside the board, one beyond each edge
OffBoardSquares == { <<-1, 4>>, <<10, 4>>, <<0, -1>>, <<0, 9>> }

\* the cells makeMove is called with when the caller does not keep to the board
AnySquares == OffBoardSquares \cup { <<0, 4>>, <<1, 5>>, <<9, 3>> }

\* the game driven by a caller that may pass coordinates outside the board
NextAnyArgs ==
    \/ \E from \in InputSquares, to \in InputSquares :
          makeMove(from[1], from[2], to[1], to[2]) /\ UNCHANGED outside
    \/ \E from \in AnySquares, to \in AnySquares :
          /\ from \in OffBoardSquares \/ to \in OffBoardSquares
          /\ makeMove(from[1], from[2], to[1], to[2])
          /\ UNCHANGED outside
    \/ undoMove /\ UNCHANGED outside

SpecAnyArgs == Init /\ [][NextAnyArgs]_vars

\* ------------------------------------------------------------------------
\* js/game.js : the arrays behind the boards
\* ------------------------------------------------------------------------
\* A board is an array of ROWS row arrays. applyMove writes into row arrays, and two
\* boards holding the same row array see each other's writes. objects.rows gives
\* the content of every row array in use under a name, objects.live names the row
\* arrays of this.board and objects.hist those of the board of each moveHistory
\* record. The cell objects are never written after they are made, so a row is
\* followed by its content. The boards getLegalMoves clones and tries moves on are
\* dropped when it returns and are not followed.
RowBlock(k) == (k * ROWS) .. (k * ROWS + ROWS - 1)

\* the first block of ROWS names none of which is borne by a row array in use
FreeBlock(rows) ==
    CHOOSE k \in 0 .. (MaxMoves + 1) :
        /\ RowBlock(k) \cap DOMAIN rows = {}
        /\ \A j \in 0 .. (k - 1) : RowBlock(j) \cap DOMAIN rows # {}

\* the record keeping this.board itself instead of a clone of it
cloneRowsShared(rows, ids) == [rows |-> rows, ids |-> ids]

\* board.map(row => row.map(...)): a new row array for every row of the board
cloneRows(rows, ids) ==
    LET k == FreeBlock(rows)
    IN  [rows |-> [i \in DOMAIN rows \cup RowBlock(k) |->
                      IF i \in DOMAIN rows THEN rows[i] ELSE rows[ids[i - k * ROWS]]],
         ids |-> [r \in RowIdx |-> k * ROWS + r]]

\* the position read through the row arrays ids names
BoardAt(rows, ids) == [r \in RowIdx |-> rows[ids[r]]]

\* applyMove writing into the row arrays of the board it is given
applyMoveRows(rows, ids, fromRow, fromCol, toRow, toCol) ==
    LET moved == [rows EXCEPT ![ids[toRow]][toCol] = rows[ids[fromRow]][fromCol]]
    IN  [moved EXCEPT ![ids[fromRow]][fromCol] = Null]

\* the row arrays still held by this.board or by a record of moveHistory
RowsInUse(rows, live, hist) ==
    LET inUse == {live[r] : r \in RowIdx}
                 \cup UNION {{hist[i][r] : r \in RowIdx} : i \in 1 .. Len(hist)}
    IN  [i \in inUse |-> rows[i]]

\* an accepted makeMove: the clone goes into the pushed record, then applyMove
\* writes into this.board
PushedObjects(fromRow, fromCol, toRow, toCol) ==
    LET snap == cloneRows(objects.rows, objects.live)
    IN  [followed |-> TRUE,
         rows |-> applyMoveRows(snap.rows, objects.live, fromRow, fromCol, toRow, toCol),
         live |-> objects.live,
         hist |-> Append(objects.hist, snap.ids)]

\* The names are no part of the program's state: two heaps that differ by a
\* renaming of the row arrays are one state. Renamed gives the boards their blocks
\* of names in the order this.board, first record, second record, ...
Renamed(rows, live, hist) ==
    LET order == <<live[0] \div ROWS>> \o [i \in 1 .. Len(hist) |-> hist[i][0] \div ROWS]
        first(k) == CHOOSE j \in 1 .. Len(order) :
                        order[j] = k /\ \A h \in 1 .. (j - 1) : order[h] # k
        newBlock(k) == Cardinality({order[h] : h \in 1 .. (first(k) - 1)})
        newName(n) == newBlock(n \div ROWS) * ROWS + (n % ROWS)
        oldName(m) == CHOOSE n \in DOMAIN rows : newName(n) = m
    IN  [followed |-> TRUE,
         rows |-> [m \in {newName(n) : n \in DOMAIN rows} |-> rows[oldName(m)]],
         live |-> [r \in RowIdx |-> newName(live[r])],
         hist |-> [i \in 1 .. Len(hist) |-> [r \in RowIdx |-> newName(hist[i][r])]]]

\* an undoMove that pops a record: this.board = lastEntry.board
PoppedObjects ==
    LET lastIds == objects.hist[Len(objects.hist)]
        popped == SubSeq(objects.hist, 1, Len(objects.hist) - 1)
    IN  Renamed(RowsInUse(objects.rows, lastIds, popped), lastIds, popped)

InitObjects ==
    /\ NewGame
    /\ objects = [followed |-> TRUE,
                  rows |-> [i \in RowBlock(0) |-> board[i]],
                  live |-> [r \in RowIdx |-> r],
                  hist |-> <<>>]
    /\ store = NoStore
    /\ probe = NoProbe
    /\ app = NoApp
    /\ server = NoServer

makeMoveObjects(fromRow, fromCol, toRow, toCol) ==
    /\ makeMove(fromRow, fromCol, toRow, toCol)
    /\ objects' = IF lastCall'.ret
                  THEN PushedObjects(fromRow, fromCol, toRow, toCol)
                  ELSE objects
    /\ UNCHANGED <<store, probe, app, server>>

undoMoveObjects ==
    /\ undoMove
    /\ objects' = IF lastCall'.ret THEN PoppedObjects ELSE objects
    /\ UNCHANGED <<store, probe, app, server>>

NextObjects ==
    \/ \E from \in InputSquares, to \in InputSquares :
          makeMoveObjects(from[1], from[2], to[1], to[2])
    \/ undoMoveObjects

SpecObjects == InitObjects /\ [][NextObjects]_vars

\* ------------------------------------------------------------------------
\* js/game.js : toJSON, fromJSON
\* ------------------------------------------------------------------------
\* A JSON text is followed as its syntax tree: a node is null, a boolean, a number, a
\* string, an array of nodes or an object, whose members are the keys it was
\* written with. JSON.parse gives back the tree; a key that is not a member reads
\* as undefined.
JNull == [t |-> "null", v |-> <<>>]
JUndefined == [t |-> "undefined", v |-> <<>>]
JBool(b) == [t |-> "bool", v |-> b]
JNum(n) == [t |-> "num", v |-> n]
JStr(str) == [t |-> "str", v |-> str]
JArr(seq) == [t |-> "arr", v |-> seq]
JObj(members) == [t |-> "obj", v |-> members]

\* this.board and this.currentTurn after fromJSON was given no such member
UndefinedBoard == <<>>
Undefined == "undefined"

\* JSON.stringify on the values the game holds
WriteCell(cell) ==
    IF cell = Null THEN JNull
    ELSE JObj([type |-> JStr(cell.type), side |-> JStr(cell.side)])

WriteBoard(b) ==
    JArr([r \in 1 .. ROWS |-> JArr([c \in 1 .. COLS |-> WriteCell(b[r - 1][c - 1])])])

WriteMove(m) ==
    IF m = NoMove THEN JNull
    ELSE JObj([fromRow |-> JNum(m.fromRow), fromCol |-> JNum(m.fromCol),
               toRow |-> JNum(m.toRow), toCol |-> JNum(m.toCol)])

WriteName(name) == IF name = NullStr THEN JNull ELSE JStr(name)

WriteCounters(cc) == JObj([red |-> JNum(cc.red), black |-> JNum(cc.black)])

WriteChecks(seq) ==
    JArr([i \in 1 .. Len(seq) |->
            JObj([pieceKey |-> JStr(seq[i].pieceKey),
                  toRow |-> JNum(seq[i].toRow), toCol |-> JNum(seq[i].toCol)])])

WriteCheckHistory(ch) == JObj([red |-> WriteChecks(ch.red), black |-> WriteChecks(ch.black)])

WriteEntry(e) ==
    JObj([fromRow |-> JNum(e.fromRow), fromCol |-> JNum(e.fromCol),
          toRow |-> JNum(e.toRow), toCol |-> JNum(e.toCol),
          piece |-> WriteCell(e.piece), captured |-> WriteCell(e.captured),
          board |-> WriteBoard(e.board),
          prevConsecutiveChecks |-> WriteCounters(e.prevConsecutiveChecks),
          prevCheckHistory |-> WriteCheckHistory(e.prevCheckHistory)])

WriteHistory(h) == JArr([i \in 1 .. Len(h) |-> WriteEntry(h[i])])

\* the object toJSON returns: ten fields of the game, checkLimitReached not among them
toJSON ==
    [board |-> board, currentTurn |-> currentTurn, moveHistory |-> moveHistory,
     lastMove |-> lastMove, gameOver |-> gameOver, winner |-> winner,
     loseReason |-> loseReason, inCheck |-> inCheck,
     consecutiveChecks |-> consecutiveChecks, checkHistory |-> checkHistory]

GameStateKeys ==
    {"board", "currentTurn", "moveHistory", "lastMove", "gameOver", "winner",
     "loseReason", "inCheck", "consecutiveChecks", "checkHistory"}

\* JSON.stringify(gameState): a property whose value is undefined is left out
JSONstringify(g) ==
    LET written == GameStateKeys \ ((IF g.board = UndefinedBoard THEN {"board"} ELSE {})
                                     \cup (IF g.currentTurn = Undefined THEN {"currentTurn"} ELSE {}))
    IN  JObj([k \in written |->
                CASE k = "board" -> WriteBoard(g.board)
                  [] k = "currentTurn" -> JStr(g.currentTurn)
                  [] k = "moveHistory" -> WriteHistory(g.moveHistory)
                  [] k = "lastMove" -> WriteMove(g.lastMove)
                  [] k = "gameOver" -> JBool(g.gameOver)
                  [] k = "winner" -> WriteName(g.winner)
                  [] k = "loseReason" -> WriteName(g.loseReason)
                  [] k = "inCheck" -> JBool(g.inCheck)
                  [] k = "consecutiveChecks" -> WriteCounters(g.consecutiveChecks)
                  [] k = "checkHistory" -> WriteCheckHistory(g.checkHistory)])

\* data[k]
Member(data, k) == IF k \in DOMAIN data.v THEN data.v[k] ELSE JUndefined

\* what  x || d  takes for true
Truthy(j) ==
    CASE j.t = "undefined" -> FALSE
      [] j.t = "null" -> FALSE
      [] j.t = "bool" -> j.v
      [] j.t = "num" -> j.v # 0
      [] j.t = "str" -> j.v # ""
      [] OTHER -> TRUE

\* the parsed values as the game holds them
ReadCell(j) == IF j.t = "null" THEN Null ELSE p(j.v["type"].v, j.v["side"].v)

ReadBoard(j) == [r \in RowIdx |-> [c \in ColIdx |-> ReadCell(j.v[r + 1].v[c + 1])]]

ReadMove(j) ==
    [fromRow |-> j.v["fromRow"].v, fromCol |-> j.v["fromCol"].v,
     toRow |-> j.v["toRow"].v, toCol |-> j.v["toCol"].v]

ReadCounters(j) == [red |-> j.v["red"].v, black |-> j.v["black"].v]

ReadChecks(j) ==
    [i \in 1 .. Len(j.v) |->
        [pieceKey |-> j.v[i].v["pieceKey"].v,
         toRow |-> j.v[i].v["toRow"].v, toCol |-> j.v[i].v["toCol"].v]]

ReadCheckHistory(j) == [red |-> ReadChecks(j.v["red"]), black |-> ReadChecks(j.v["black"])]

ReadEntry(j) ==
    [fromRow |-> j.v["fromRow"].v, fromCol |-> j.v["fromCol"].v,
     toRow |-> j.v["toRow"].v, toCol |-> j.v["toCol"].v,
     piece |-> ReadCell(j.v["piece"]), captured |-> ReadCell(j.v["captured"]),
     board |-> ReadBoard(j.v["board"]),
     prevConsecutiveChecks |-> ReadCounters(j.v["prevConsecutiveChecks"]),
     prevCheckHistory |-> ReadCheckHistory(j.v["prevCheckHistory"])]

ReadHistory(j) == [i \in 1 .. Len(j.v) |-> ReadEntry(j.v[i])]

\* the flag restored from the streak of the side that is not to move
RestoredLimitOfMover(cc, turn) == IF turn \in SIDE THEN cc[Opp(turn)] >= 3 ELSE FALSE

\* this.consecutiveChecks[this.currentTurn] >= 3 ; undefined >= 3 is false
RestoredLimit(cc, turn) == IF turn \in SIDE THEN cc[turn] >= 3 ELSE FALSE

\* the fields fromJSON writes, from the parsed object it is given
fromJSON(data) ==
    LET has(k) == Truthy(Member(data, k))
    IN  /\ board' = (IF "board" \in DOMAIN data.v THEN ReadBoard(data.v["board"])
                     ELSE UndefinedBoard)
        /\ currentTurn' = (IF "currentTurn" \in DOMAIN data.v THEN data.v["currentTurn"].v
                           ELSE Undefined)
        /\ moveHistory' = (IF has("moveHistory") THEN ReadHistory(data.v["moveHistory"])
                           ELSE <<>>)
        /\ lastMove' = (IF has("lastMove") THEN ReadMove(data.v["lastMove"]) ELSE NoMove)
        /\ gameOver' = (IF has("gameOver") THEN data.v["gameOver"].v ELSE FALSE)
        /\ winner' = (IF has("winner") THEN data.v["winner"].v ELSE NullStr)
        /\ loseReason' = (IF has("loseReason") THEN data.v["loseReason"].v ELSE NullStr)
        /\ inCheck' = (IF has("inCheck") THEN data.v["inCheck"].v ELSE FALSE)
        /\ consecutiveChecks' = (IF has("consecutiveChecks")
                                 THEN ReadCounters(data.v["consecutiveChecks"])
                                 ELSE [red |-> 0, black |-> 0])
        /\ checkHistory' = (IF has("checkHistory")
                            THEN ReadCheckHistory(data.v["checkHistory"])
                            ELSE [red |-> <<>>, black |-> <<>>])
        /\ checkLimitReached' = RestoredLimit(consecutiveChecks', currentTurn')

\* the game written out and read back: fromJSON(JSON.parse(JSON.stringify(toJSON())))
reloadGame ==
    /\ fromJSON(JSONstringify(toJSON))
    /\ lastCall' = [op |-> "fromJSON", ret |-> TRUE, error |-> NoError]
    /\ before' = NoSnapshot
    /\ UNCHANGED outside

\* the cells makeMove is called with where the game is saved and loaded as well
FewSquares == { <<0, 4>>, <<0, 5>>, <<1, 4>>, <<1, 5>>, <<9, 3>>, <<8, 4>> }

NextJSON ==
    \/ \E from \in FewSquares, to \in FewSquares :
          makeMove(from[1], from[2], to[1], to[2]) /\ UNCHANGED outside
    \/ undoMove /\ UNCHANGED outside
    \/ reloadGame

SpecJSON == Init /\ [][NextJSON]_vars

\* ------------------------------------------------------------------------
\* js/main.js : saveGame, clearSave, resumeGame and the handlers that save
\* ------------------------------------------------------------------------
\* The game screen in player-versus-player mode. Of the saved object only
\* gameState is followed.

\* localStorage after saveGame
SavedGame == [saved |-> TRUE, doc |-> JSONstringify(toJSON)]

\* a saved text that lacks members
Without(doc, keys) == JObj([k \in (DOMAIN doc.v) \ keys |-> doc.v[k]])

\* the members a save found at start-up may lack
LostKeys == { {}, {"board"}, {"currentTurn"}, GameStateKeys \ {"board", "currentTurn"} }

\* a new game, with no save or with a save of it left by an earlier session
InitResume ==
    /\ NewGame
    /\ objects = NoObjects
    /\ probe = NoProbe
    /\ app = NoApp
    /\ server = NoServer
    /\ store \in {NoStore} \cup
                  {[saved |-> TRUE, doc |-> Without(JSONstringify(toJSON), keys)] :
                      keys \in LostKeys}

\* a click on a destination of the selected piece: makeMove, saveGame, and clearSave
\* when the move ended the game. A click on a game without board raises in the
\* selection and moves nothing.
handleCanvasClick(fromRow, fromCol, toRow, toCol) ==
    /\ board # UndefinedBoard
    /\ makeMove(fromRow, fromCol, toRow, toCol)
    /\ lastCall'.ret
    /\ store' = IF gameOver' THEN NoStore ELSE SavedGame'
    /\ UNCHANGED <<objects, probe, app, server>>

\* undoMove, render, saveGame; render raises on a game without board and the save
\* is not reached
handleUndo ==
    /\ undoMove
    /\ store' = IF board' = UndefinedBoard THEN store ELSE SavedGame'
    /\ UNCHANGED <<objects, probe, app, server>>

\* fromJSON on the saved gameState, then updateStatus and render. render reads
\* board[r][c] and raises when the board is undefined: the catch clears the save and
\* shows 'Failed to resume'. lastCall.ret tells 'Game resumed' from 'Failed to resume'.
resumeGame ==
    /\ store.saved
    /\ fromJSON(store.doc)
    /\ IF board' = UndefinedBoard
       THEN /\ store' = NoStore
            /\ lastCall' = [op |-> "resumeGame", ret |-> FALSE, error |-> NoError]
       ELSE /\ store' = store
            /\ lastCall' = [op |-> "resumeGame", ret |-> TRUE, error |-> NoError]
    /\ before' = NoSnapshot
    /\ UNCHANGED <<objects, probe, app, server>>

NextResume ==
    \/ \E from \in FewSquares, to \in FewSquares : handleCanvasClick(from[1], from[2], to[1], to[2])
    \/ handleUndo
    \/ resumeGame

SpecResume == InitResume /\ [][NextResume]_vars

\* ------------------------------------------------------------------------
\* js/pieces.js, js/game.js : the move generators and isInCheck on given positions
\* ------------------------------------------------------------------------
\* how many pieces a position holds besides the kings and the piece looked at
MaxOthers == 3

\* how far from the piece looked at, along its row, the others stand; along its
\* column they stand next to it
RaySteps == {1, 2, 3}

Cells == RowIdx \X ColIdx

\* the pieces that may stand on any cell, two of each for a side; the others of a
\* side are taken from the list in this order
Roamers(own) ==
    CASE own = HORSE -> <<CANNON, CANNON, CHARIOT, CHARIOT, HORSE>>
      [] own = CANNON -> <<HORSE, HORSE, CHARIOT, CHARIOT, CANNON>>
      [] own = CHARIOT -> <<HORSE, HORSE, CANNON, CANNON, CHARIOT>>
      [] OTHER -> <<HORSE, HORSE, CANNON, CANNON, CHARIOT, CHARIOT>>

\* how many cells of S come before cell in row-major order
Rank(cell, S) ==
    Cardinality({d \in S : d[1] < cell[1] \/ (d[1] = cell[1] /\ d[2] < cell[2])})

\* every way to put at most MaxOthers roaming pieces of either side on cells, next
\* to a piece of type own and side ownSide
OthersOn(cells, own, ownSide) ==
    UNION { { { <<c[1], c[2],
                  p((IF f[c] = ownSide THEN Roamers(own) ELSE Roamers(KING))
                        [Rank(c, {d \in S : f[d] = f[c]}) + 1],
                    f[c])>> : c \in S }
              : f \in [S -> SIDE] }
            : S \in {T \in SUBSET cells : Cardinality(T) <= MaxOthers} }

\* the kings, on columns of their own
KingsApart == { <<0, 3, p(KING, BLACK)>>, <<9, 5, p(KING, RED)>> }

LineCells(at) ==
    ({<<at[1], at[2] + k>> : k \in RaySteps} \cup {<<at[1], at[2] - k>> : k \in RaySteps}
     \cup {<<at[1] + 1, at[2]>>, <<at[1] - 1, at[2]>>})
    \cap Cells

\* the four legs and one destination behind each
HorseCells(at) ==
    ({<<at[1] + d[1], at[2] + d[2]>> : d \in OrthoDirs}
     \cup {<<at[1] + m[1], at[2] + m[2]>> : m \in {<<-2, 1>>, <<2, -1>>, <<1, -2>>, <<-1, 2>>}})
    \cap Cells

\* the four eyes and the destinations on the left
ElephantCells(at) ==
    ({<<at[1] + b[1], at[2] + b[2]>> : b \in {<<1, 1>>, <<1, -1>>, <<-1, 1>>, <<-1, -1>>}}
     \cup {<<at[1] + 2, at[2] - 2>>, <<at[1] - 2, at[2] - 2>>})
    \cap Cells

\* the piece looked at, where it stands, and the cells the others are put on
Subjects ==
    {[type |-> t, side |-> sd, at |-> at, cells |-> LineCells(at)] :
        t \in {CHARIOT, CANNON}, sd \in SIDE, at \in {<<9, 0>>, <<4, 4>>}}
    \cup {[type |-> HORSE, side |-> sd, at |-> at, cells |-> HorseCells(at)] :
            sd \in SIDE, at \in {<<9, 1>>, <<4, 4>>}}
    \cup {[type |-> ELEPHANT, side |-> RED, at |-> at, cells |-> ElephantCells(at)] :
            at \in {<<9, 2>>, <<5, 2>>}}
    \cup {[type |-> ELEPHANT, side |-> BLACK, at |-> at, cells |-> ElephantCells(at)] :
            at \in {<<0, 2>>, <<4, 2>>}}

\* the board holds the kings, a piece to look at and others around it
MoverPosition ==
    \E sj \in Subjects :
        \E others \in OthersOn(sj.cells \ {<<0, 3>>, <<9, 5>>}, sj.type, sj.side) :
            board = BoardOf(KingsApart \cup {<<sj.at[1], sj.at[2], p(sj.type, sj.side)>>}
                            \cup others)

\* the position seen from the other side of the board: rows turned over, colours
\* exchanged
Mirror(b) ==
    [r \in RowIdx |-> [c \in ColIdx |->
        IF b[ROWS - 1 - r][c] = Null THEN Null
        ELSE p(b[ROWS - 1 - r][c].type, Opp(b[ROWS - 1 - r][c].side))]]

\* a red piece near the black palace
Attackers ==
    { <<5, 4, p(CHARIOT, RED)>>, <<0, 0, p(CHARIOT, RED)>>,
      <<5, 4, p(CANNON, RED)>>, <<0, 0, p(CANNON, RED)>>,
      <<2, 5, p(HORSE, RED)>>, <<1, 4, p(SOLDIER, RED)>> }

\* the black king in its palace, or no black king: isInCheck takes any board
BlackKings == { {<<0, 4, p(KING, BLACK)>>}, {<<1, 3, p(KING, BLACK)>>}, {} }

\* the cells between the attackers and the king, the horses' legs among them
BlockCells == { <<1, 4>>, <<3, 4>>, <<0, 2>>, <<1, 5>> }

\* the board holds an attacker before the black palace, or the same seen from the
\* other side
CheckPosition ==
    \E bk \in BlackKings, att \in Attackers :
        \E others \in OthersOn(BlockCells \ {<<att[1], att[2]>>}, att[3].type, RED) :
            LET b == BoardOf({<<9, 5, p(KING, RED)>>} \cup bk \cup {att} \cup others)
            IN  board \in {b, Mirror(b)}

\* the cells next to the king and one cell of its column between the palaces
AroundKing(at) ==
    ({<<at[1] + d[1], at[2] + d[2]>> : d \in OrthoDirs} \cup {<<5, at[2]>>}) \cap Cells

\* where the two kings stand: the red one looked at, the black one on its column or
\* on another
KingPairs ==
    {<<rk, bk>> : rk \in {<<9, 4>>, <<8, 4>>, <<7, 3>>, <<8, 5>>},
                  bk \in {<<0, 4>>, <<2, 4>>, <<1, 3>>}}

\* the board holds the two kings in their palaces and others around the red one, or
\* the same seen from the other side
KingPosition ==
    \E kp \in KingPairs :
        \E others \in OthersOn(AroundKing(kp[1]), KING, RED) :
            LET b == BoardOf({<<kp[1][1], kp[1][2], p(KING, RED)>>,
                              <<kp[2][1], kp[2][2], p(KING, BLACK)>>} \cup others)
            IN  board \in {b, Mirror(b)}

InitPieces ==
    /\ MoverPosition \/ CheckPosition \/ KingPosition
    /\ currentTurn = RED
    /\ lastMove = NoMove
    /\ moveHistory = <<>>
    /\ gameOver = FALSE
    /\ winner = NullStr
    /\ loseReason = NullStr
    /\ inCheck = FALSE
    /\ consecutiveChecks = [red |-> 0, black |-> 0]
    /\ checkHistory = [red |-> <<>>, black |-> <<>>]
    /\ checkLimitReached = FALSE
    /\ lastCall = [op |-> "reset", ret |-> TRUE, error |-> NoError]
    /\ before = NoSnapshot
    /\ objects = NoObjects
    /\ store = NoStore
    /\ probe = NoProbe
    /\ app = NoApp
    /\ server = NoServer

\* one call on the position given
callGetPieceMoves(row, col) ==
    /\ probe = NoProbe
    /\ probe' = [fn |-> "getPieceMoves", row |-> row, col |-> col,
                 side |-> board[row][col].side,
                 result |-> getPieceMoves(board, row, col)]
    /\ UNCHANGED <<gameFields, lastCall, before, objects, store, app, server>>

callIsInCheck(side) ==
    /\ probe = NoProbe
    /\ probe' = [fn |-> "isInCheck", row |-> -1, col |-> -1, side |-> side,
                 result |-> isInCheck(board, side)]
    /\ UNCHANGED <<gameFields, lastCall, before, objects, store, app, server>>

NextPieces ==
    \/ \E row \in RowIdx, col \in ColIdx :
          board[row][col] # Null /\ callGetPieceMoves(row, col)
    \/ \E side \in SIDE : callIsInCheck(side)

SpecPieces == InitPieces /\ [][NextPieces]_vars

\* ------------------------------------------------------------------------
\* js/pieces.js : getSoldierMoves on given positions, and the soldiers in play
\* ------------------------------------------------------------------------
\* the four cells next to the soldier and one cell diagonally before it
SoldierCells(at, side) ==
    ({<<at[1] + d[1], at[2] + d[2]>> : d \in OrthoDirs}
     \cup {<<at[1] + (IF side = RED THEN -1 ELSE 1), at[2] + 1>>})
    \cap Cells

\* the soldiers looked at: before the river on their files, on either bank of it,
\* on an edge column and on the last row
SoldierSubjects ==
    {[type |-> SOLDIER, side |-> RED, at |-> at, cells |-> SoldierCells(at, RED)] :
        at \in {<<6, 0>>, <<5, 4>>, <<4, 4>>, <<4, 0>>, <<0, 4>>}}
    \cup {[type |-> SOLDIER, side |-> BLACK, at |-> at, cells |-> SoldierCells(at, BLACK)] :
            at \in {<<3, 0>>, <<4, 4>>, <<5, 4>>, <<5, 8>>, <<9, 4>>}}

\* the board holds the kings, a soldier and others around it
SoldierPosition ==
    \E sj \in SoldierSubjects :
        \E others \in OthersOn(sj.cells \ {<<0, 3>>, <<9, 5>>}, sj.type, sj.side) :
            board = BoardOf(KingsApart \cup {<<sj.at[1], sj.at[2], p(sj.type, sj.side)>>}
                            \cup others)

InitSoldier ==
    /\ SoldierPosition \/ board = cloneBoard(INITIAL_BOARD)
    /\ currentTurn = RED
    /\ lastMove = NoMove
    /\ moveHistory = <<>>
    /\ gameOver = FALSE
    /\ winner = NullStr
    /\ loseReason = NullStr
    /\ inCheck = FALSE
    /\ consecutiveChecks = [red |-> 0, black |-> 0]
    /\ checkHistory = [red |-> <<>>, black |-> <<>>]
    /\ checkLimitReached = FALSE
    /\ lastCall = [op |-> "reset", ret |-> TRUE, error |-> NoError]
    /\ before = NoSnapshot
    /\ objects = NoObjects
    /\ store = NoStore
    /\ probe = NoProbe
    /\ app = NoApp
    /\ server = NoServer

\* the cells makeMove is called with: the soldiers of column 0 and the cells before
\* them; what a generator answered for the position before the call is forgotten
SoldierSquares == { <<6, 0>>, <<5, 0>>, <<3, 0>>, <<4, 0>> }

NextSoldier ==
    \/ \E row \in RowIdx, col \in ColIdx :
          /\ board[row][col] # Null
          /\ board[row][col].type = SOLDIER
          /\ callGetPieceMoves(row, col)
    \/ \E from \in SoldierSquares, to \in SoldierSquares :
          /\ makeMove(from[1], from[2], to[1], to[2])
          /\ probe' = NoProbe
          /\ UNCHANGED <<objects, store, app, server>>

SpecSoldier == InitSoldier /\ [][NextSoldier]_vars

\* ------------------------------------------------------------------------
\* js/game.js : the kings, advisors and elephants in play
\* ------------------------------------------------------------------------
\* An ending with the confined pieces: the kings stand on column 4 with the red
\* elephant between them, the black advisor beside its king, a black elephant on
\* its bank of the river.  Red is to move and neither king is attacked.
PalaceEnding ==
    BoardOf({ <<9, 4, p(KING, RED)>>, <<7, 4, p(ELEPHANT, RED)>>,
              <<0, 4, p(KING, BLACK)>>, <<0, 3, p(ADVISOR, BLACK)>>,
              <<4, 6, p(ELEPHANT, BLACK)>> })

\* the cells makeMove is called with: for each side two cells of an elephant on its
\* half and one cell beyond the river, the cells of the king and of an advisor
PalaceSquares ==
    { <<7, 4>>, <<5, 2>>, <<3, 4>>, <<9, 4>>, <<8, 4>>, <<9, 3>>,
      <<2, 4>>, <<4, 6>>, <<6, 4>>, <<0, 4>>, <<1, 4>>, <<0, 3>> }

InitPalace ==
    /\ board \in {cloneBoard(INITIAL_BOARD), cloneBoard(PalaceEnding)}
    /\ currentTurn = RED
    /\ lastMove = NoMove
    /\ moveHistory = <<>>
    /\ gameOver = FALSE
    /\ winner = NullStr
    /\ loseReason = NullStr
    /\ inCheck = FALSE
    /\ consecutiveChecks = [red |-> 0, black |-> 0]
    /\ checkHistory = [red |-> <<>>, black |-> <<>>]
    /\ checkLimitReached = FALSE
    /\ lastCall = [op |-> "reset", ret |-> TRUE, error |-> NoError]
    /\ before = NoSnapshot
    /\ objects = NoObjects
    /\ store = NoStore
    /\ probe = NoProbe
    /\ app = NoApp
    /\ server = NoServer

NextPalace ==
    \/ \E from \in PalaceSquares, to \in PalaceSquares :
          makeMove(from[1], from[2], to[1], to[2]) /\ UNCHANGED outside
    \/ undoMove /\ UNCHANGED outside

SpecPalace == InitPalace /\ [][NextPalace]_vars

\* ------------------------------------------------------------------------
\* js/main.js : a game against the bot
\* ------------------------------------------------------------------------
\* An ending of a game against the bot, as resumeGame loads it: a red chariot
\* harasses the black king, which can only step between (0,4) and (1,4), a red
\* soldier holding (2,4).  Red, the player, is to move.
HarassEnding ==
    BoardOf({ <<9, 3, p(KING, RED)>>, <<1, 8, p(CHARIOT, RED)>>, <<3, 4, p(SOLDIER, RED)>>,
              <<0, 4, p(KING, BLACK)>> })

\* the cells the player clicks on
BotSquares == { <<1, 8>>, <<0, 8>> }

\* the depths the difficulty buttons carry
Depths == {2, 3, 4}

\* no search has come to its end yet
NoSearch == [done |-> FALSE]

\* The ply at which the search below a node first calls evaluate, following the
\* first move of every node: minimax is entered at ply with depth left, and calls
\* itself with depth - 1 until depth is 0 or the side to move has no move.
RECURSIVE FirstLeafPly(_, _, _, _, _)
FirstLeafPly(b, depth, ply, isMaximizing, aiSide) ==
    IF depth = 0 THEN ply
    ELSE TheOne({
            IF Len(moves) = 0 THEN ply
            ELSE TheOne({FirstLeafPly(newBoard, depth - 1, ply + 1, ~isMaximizing, aiSide)
                         : newBoard \in
                             {AI_applyMove(AI_cloneBoard(b), moves[1].fromRow, moves[1].fromCol,
                                           moves[1].toRow, moves[1].toCol)}})
            : moves \in {getAllMovesForBoard(b, IF isMaximizing THEN aiSide
                                                ELSE Opp(aiSide))} })

Range(seq) == {seq[i] : i \in 1 .. Len(seq)}

\* a game against the bot resumed in position b, the player to move
InitBotOn(b) ==
    /\ board = cloneBoard(b)
    /\ currentTurn = RED
    /\ lastMove = NoMove
    /\ moveHistory = <<>>
    /\ gameOver = FALSE
    /\ winner = NullStr
    /\ loseReason = NullStr
    /\ inCheck = FALSE
    /\ consecutiveChecks = [red |-> 0, black |-> 0]
    /\ checkHistory = [red |-> <<>>, black |-> <<>>]
    /\ checkLimitReached = FALSE
    /\ lastCall = [op |-> "reset", ret |-> TRUE, error |-> NoError]
    /\ before = NoSnapshot
    /\ objects = NoObjects
    /\ store = NoStore
    /\ probe = NoProbe
    /\ \E d \in Depths :
          app = [mode |-> "pvsbot", playerSide |-> RED, aiSide |-> BLACK, aiDepth |-> d,
                 botThinking |-> FALSE, timers |-> <<>>, frames |-> <<>>, found |-> NoSearch]
    /\ server = NoServer

InitBot == InitBotOn(HarassEnding)

\* reset(): the fields of a new game
reset ==
    /\ board' = cloneBoard(INITIAL_BOARD)
    /\ currentTurn' = RED
    /\ lastMove' = NoMove
    /\ moveHistory' = <<>>
    /\ gameOver' = FALSE
    /\ winner' = NullStr
    /\ loseReason' = NullStr
    /\ inCheck' = FALSE
    /\ consecutiveChecks' = [red |-> 0, black |-> 0]
    /\ checkHistory' = [red |-> <<>>, black |-> <<>>]
    /\ checkLimitReached' = FALSE
    /\ lastCall' = [op |-> "reset", ret |-> TRUE, error |-> NoError]
    /\ before' = NoSnapshot

\* A click of the player on a destination of the selected piece, with the callback
\* of the animation: makeMove, saveGame, clearSave when the game is over, and
\* triggerBotMove up to its await when the bot is to move.  getBestMove has then
\* set its timer; started is the game the bot was asked to move in, and what the
\* search before did is forgotten.
handleCanvasClickVsBot(fromRow, fromCol, toRow, toCol) ==
    /\ app.mode = "pvsbot"
    /\ ~gameOver /\ ~app.botThinking
    /\ currentTurn = app.playerSide
    /\ makeMove(fromRow, fromCol, toRow, toCol)
    /\ lastCall'.ret
    /\ store' = IF gameOver' THEN NoStore ELSE SavedGame'
    /\ app' = IF ~gameOver' /\ currentTurn' = app.aiSide
              THEN [app EXCEPT !.botThinking = TRUE,
                               !.timers = Append(@, [started |-> Snapshot']),
                               !.found = NoSearch]
              ELSE app
    /\ UNCHANGED <<objects, probe, server>>

\* The timer of getBestMove fires: the search runs on the game as it is now, the
\* promise resolves and triggerBotMove goes on behind its await, starting the
\* animation of the move or, without a move, giving the turn back.  The piece of a
\* move found stands on the board, so animateMove never calls back at once.
\* found keeps what the search did: the position it ran on, its result, the ply at
\* which it evaluated and the moves it expanded for the player behind its result.
getBestMove ==
    /\ app.timers # <<>>
    /\ \E move \in {BestMoveOf(board, consecutiveChecks, checkHistory, app.aiSide)} :
       \E child \in {IF move = NoMove THEN board
                      ELSE AI_applyMove(cloneBoard(board), move.fromRow, move.fromCol,
                                        move.toRow, move.toCol)} :
       LET task == Head(app.timers)
           outcome == [done |-> TRUE, result |-> move, on |-> Snapshot,
                       plies |-> IF move = NoMove THEN 0
                                 ELSE FirstLeafPly(child, MAX_DEPTH - 1, 1, FALSE, app.aiSide),
                       replies |-> IF move = NoMove THEN {}
                                   ELSE Range(getAllMovesForBoard(child, Opp(app.aiSide)))]
       IN  app' = IF move # NoMove
                  THEN [app EXCEPT !.timers = Tail(@),
                                   !.frames = Append(@, [move |-> move, started |-> task.started]),
                                   !.found = outcome]
                  ELSE [app EXCEPT !.timers = Tail(@),
                                   !.botThinking = FALSE,
                                   !.found = outcome]
    /\ UNCHANGED <<gameFields, lastCall, before, objects, store, probe, server>>

\* the callback of the animation of the bot's move: makeMove, botThinking = false
botMoveDone ==
    /\ app.frames # <<>>
    /\ LET frame == Head(app.frames)
       IN  makeMove(frame.move.fromRow, frame.move.fromCol, frame.move.toRow, frame.move.toCol)
    /\ app' = [app EXCEPT !.frames = Tail(@), !.botThinking = FALSE]
    /\ UNCHANGED <<objects, store, probe, server>>

\* undoMove() twice in a row: the game goes back to the entry before the last one;
\* with one entry the second call returns false, with none both do
undoMoveTwice ==
    IF Len(moveHistory) = 0
    THEN RejectUndo
    ELSE LET n == Min(2, Len(moveHistory))
             lastEntry == moveHistory[Len(moveHistory) - n + 1]
             popped == SubSeq(moveHistory, 1, Len(moveHistory) - n)
             turn == lastEntry.piece.side
         IN  /\ moveHistory' = popped
             /\ board' = lastEntry.board
             /\ currentTurn' = turn
             /\ gameOver' = FALSE
             /\ winner' = NullStr
             /\ loseReason' = NullStr
             /\ consecutiveChecks' = lastEntry.prevConsecutiveChecks
             /\ checkHistory' = lastEntry.prevCheckHistory
             /\ checkLimitReached' = (lastEntry.prevConsecutiveChecks[turn] >= 3)
             /\ lastMove' = (IF Len(popped) > 0
                             THEN LET prev == popped[Len(popped)]
                                  IN  [fromRow |-> prev.fromRow, fromCol |-> prev.fromCol,
                                       toRow |-> prev.toRow, toCol |-> prev.toCol]
                             ELSE NoMove)
             /\ inCheck' = isInCheck(lastEntry.board, turn)
             /\ lastCall' = [op |-> "undoMove", ret |-> (n = 2), error |-> NoError]
             /\ before' = NoSnapshot

\* Undo in a game against the bot: nothing while the bot is thinking, else the
\* bot's move and the player's are taken back and the game is saved
handleUndoVsBot ==
    /\ app.mode = "pvsbot"
    /\ ~app.botThinking
    /\ undoMoveTwice
    /\ store' = SavedGame'
    /\ UNCHANGED <<objects, probe, app, server>>

\* Restart in a game against the bot: startGame(mode), that is reset() and
\* botThinking = false; the callbacks that are pending stay pending.  The button is
\* pressed while no timer of getBestMove is pending.
handleRestart ==
    /\ app.mode = "pvsbot"
    /\ app.timers = <<>>
    /\ reset
    /\ app' = [app EXCEPT !.botThinking = FALSE]
    /\ UNCHANGED <<objects, store, probe, server>>

NextBot ==
    \/ \E from \in BotSquares, to \in BotSquares :
          handleCanvasClickVsBot(from[1], from[2], to[1], to[2])
    \/ getBestMove
    \/ botMoveDone
    \/ handleUndoVsBot
    \/ handleRestart

SpecBot == InitBot /\ [][NextBot]_vars

\* an ending in which the player mates with the second move: chariot (1,8)-(0,8)
\* check, the king has (0,4)-(1,4) only, soldier (3,4)-(2,4) mate
LadderEnding ==
    BoardOf({ <<9, 3, p(KING, RED)>>, <<1, 8, p(CHARIOT, RED)>>, <<3, 4, p(SOLDIER, RED)>>,
              <<2, 5, p(SOLDIER, RED)>>, <<0, 4, p(KING, BLACK)>> })

\* the cells the player clicks on in that ending
LadderSquares == { <<1, 8>>, <<0, 8>>, <<3, 4>>, <<2, 4>> }

NextBotLadder ==
    \/ \E from \in LadderSquares, to \in LadderSquares :
          handleCanvasClickVsBot(from[1], from[2], to[1], to[2])
    \/ getBestMove
    \/ botMoveDone
    \/ handleUndoVsBot
    \/ handleRestart

SpecBotLadder == InitBotOn(LadderEnding) /\ [][NextBotLadder]_vars

\* ------------------------------------------------------------------------
\* AI.getBestMove on given games
\* ------------------------------------------------------------------------
\* the cells in front of a palace on which soldiers close in on the king
SiegeCells == { <<1, 3>>, <<1, 4>>, <<1, 5>>, <<2, 4>> }

\* Endings of soldiers against a lone king, seen from either side of the board: up
\* to MaxOthers red soldiers stand before the black king.  The kings do not face
\* each other and the side that has just moved is not in check.
SiegePosition ==
    \E rk \in {<<9, 4>>, <<9, 3>>}, bk \in {<<0, 4>>, <<0, 3>>} :
        \E S \in {T \in SUBSET SiegeCells : Cardinality(T) <= MaxOthers} :
            LET b == BoardOf({<<rk[1], rk[2], p(KING, RED)>>, <<bk[1], bk[2], p(KING, BLACK)>>}
                             \cup {<<c[1], c[2], p(SOLDIER, RED)>> : c \in S})
            IN  board = b \/ board = Mirror(b)

InitSearch ==
    /\ SiegePosition
    /\ currentTurn \in SIDE
    /\ ~isFlyingGeneral(board)
    /\ ~isInCheck(board, Opp(currentTurn))
    /\ lastMove = NoMove
    /\ moveHistory = <<>>
    /\ gameOver = FALSE
    /\ winner = NullStr
    /\ loseReason = NullStr
    /\ inCheck = isInCheck(board, currentTurn)
    /\ consecutiveChecks = [red |-> 0, black |-> 0]
    /\ checkHistory = [red |-> <<>>, black |-> <<>>]
    /\ checkLimitReached = FALSE
    /\ lastCall = [op |-> "reset", ret |-> TRUE, error |-> NoError]
    /\ before = NoSnapshot
    /\ objects = NoObjects
    /\ store = NoStore
    /\ probe = NoProbe
    /\ app = NoApp
    /\ server = NoServer

\* new AI(side).getBestMove(game), awaited: the timer fires and the promise
\* resolves with the move found or with null, for which NoMove stands
callGetBestMove(side) ==
    /\ probe = NoProbe
    /\ probe' = [fn |-> "getBestMove", row |-> -1, col |-> -1, side |-> side,
                 result |-> BestMoveOf(board, consecutiveChecks, checkHistory, side),
                 error |-> NoError]
    /\ UNCHANGED <<gameFields, lastCall, before, objects, store, app, server>>

NextSearch == callGetBestMove(currentTurn)

SpecSearch == InitSearch /\ [][NextSearch]_vars

\* ------------------------------------------------------------------------
\* js/game.js : the analysis on the arrays of the board
\* ------------------------------------------------------------------------
\* the row arrays of names, the others dropped; the equation has the content of
\* each array computed here rather than at every later look
Restrict(rows, names) == CHOOSE kept \in {[i \in names |-> rows[i]]} : kept = kept

\* testBoard = cloneBoard(board); applyMove(testBoard, ...): the row arrays as
\* they are when testBoard has been looked at and dropped
TrialRows(rows, ids, move) ==
    TheOne({
        Restrict(applyMoveRows(copy.rows, copy.ids, move.fromRow, move.fromCol,
                               move.toRow, move.toCol), DOMAIN rows)
        : copy \in {cloneRows(rows, ids)} })

\* for (const move of pseudoMoves) { testBoard ... }: the moves lo .. hi tried
\* one after the other, the first half of them and then the second
RECURSIVE TrialsRows(_, _, _, _, _)
TrialsRows(rows, ids, moves, lo, hi) ==
    IF lo > hi THEN rows
    ELSE IF lo = hi THEN TrialRows(rows, ids, moves[lo])
    ELSE TheOne({ TrialsRows(half, ids, moves, ((lo + hi) \div 2) + 1, hi)
                  : half \in {TrialsRows(rows, ids, moves, lo, (lo + hi) \div 2)} })

\* getLegalMoves(row, col) on the board of the row arrays ids
getLegalMovesRows(rows, ids, row, col) ==
    TheOne({ TrialsRows(rows, ids, moves, 1, Len(moves))
             : moves \in {MovesInPushOrder(b, row, col, getPieceMoves(b, row, col))
                          : b \in {BoardAt(rows, ids)}} })

\* getAllLegalMoves(side) and the loops of getAllMovesForBoard: every move of
\* every piece of the side is tried on a testBoard
GenerationRows(rows, ids, side) ==
    TheOne({ TrialsRows(rows, ids, moves, 1, Len(moves))
             : moves \in {CollectMoves(b, [pos \in CellsOf(b, side) |->
                                              getPieceMoves(b, pos[1], pos[2])])
                          : b \in {BoardAt(rows, ids)}} })

\* minimax on the board of the row arrays ids, every move searched: the row
\* arrays as the search leaves them. VisitRows is the loop over the moves
\* lo .. hi of a node, one after the other.
RECURSIVE SearchRows(_, _, _, _, _)
RECURSIVE VisitRows(_, _, _, _, _, _, _, _)
VisitRows(rows, ids, moves, lo, hi, depth, isMaximizing, aiSide) ==
    IF lo > hi THEN rows
    ELSE IF lo = hi
    THEN TheOne({
            Restrict(SearchRows(applyMoveRows(copy.rows, copy.ids,
                                              moves[lo].fromRow, moves[lo].fromCol,
                                              moves[lo].toRow, moves[lo].toCol),
                                copy.ids, depth - 1, ~isMaximizing, aiSide),
                     DOMAIN rows)
            : copy \in {cloneRows(rows, ids)} })
    ELSE TheOne({
            VisitRows(half, ids, moves, ((lo + hi) \div 2) + 1, hi, depth,
                      isMaximizing, aiSide)
            : half \in {VisitRows(rows, ids, moves, lo, (lo + hi) \div 2, depth,
                                  isMaximizing, aiSide)} })

SearchRows(rows, ids, depth, isMaximizing, aiSide) ==
    IF depth = 0 THEN rows
    ELSE TheOne({
            VisitRows(node.rows, ids, node.moves, 1, Len(node.moves), depth,
                      isMaximizing, aiSide)
            : node \in {[rows |-> generated,
                         moves |-> getAllMovesForBoard(BoardAt(generated, ids),
                                       IF isMaximizing THEN aiSide ELSE Opp(aiSide))]
                        : generated \in {GenerationRows(rows, ids,
                                             IF isMaximizing THEN aiSide ELSE Opp(aiSide))}} })

\* getBestMove: the moves of game.getAllLegalMoves, sorted, each tried on a clone
\* of game.board and searched
getBestMoveRows(rows, ids, cc, ch, aiSide) ==
    TheOne({
        VisitRows(node.rows, ids, node.moves, 1, Len(node.moves), MAX_DEPTH, TRUE, aiSide)
        : node \in {[rows |-> generated,
                     moves |-> SortCapturesFirst(BoardAt(generated, ids),
                                   AllLegalMovesInOrder(BoardAt(generated, ids), cc, ch, aiSide))]
                    : generated \in {GenerationRows(rows, ids, aiSide)}} })

InitAnalysis ==
    /\ SiegePosition
    /\ currentTurn \in SIDE
    /\ ~isFlyingGeneral(board)
    /\ ~isInCheck(board, Opp(currentTurn))
    /\ lastMove = NoMove
    /\ moveHistory = <<>>
    /\ gameOver = FALSE
    /\ winner = NullStr
    /\ loseReason = NullStr
    /\ inCheck = isInCheck(board, currentTurn)
    /\ consecutiveChecks = [red |-> 0, black |-> 0]
    /\ checkHistory = [red |-> <<>>, black |-> <<>>]
    /\ checkLimitReached = FALSE
    /\ lastCall = [op |-> "reset", ret |-> TRUE, error |-> NoError]
    /\ before = NoSnapshot
    /\ objects = [followed |-> TRUE,
                  rows |-> [i \in RowBlock(0) |-> board[i]],
                  live |-> [r \in RowIdx |-> r],
                  hist |-> <<>>]
    /\ store = NoStore
    /\ probe = NoProbe
    /\ app = NoApp
    /\ server = NoServer

\* a call of an analysis method: this.board is read through its row arrays when
\* the method has returned; the methods assign no field of the game
Analysed(fn, row, col, side, rows, result) ==
    /\ probe = NoProbe
    /\ objects' = [objects EXCEPT !.rows = rows]
    /\ board' = BoardAt(rows, objects.live)
    /\ probe' = [fn |-> fn, row |-> row, col |-> col, side |-> side,
                 result |-> result, error |-> NoError]
    /\ UNCHANGED <<currentTurn, lastMove, moveHistory, gameOver, winner, loseReason,
                   inCheck, consecutiveChecks, checkHistory, checkLimitReached,
                   lastCall, before, store, app, server>>

callGetLegalMovesRows(row, col) ==
    /\ board[row][col] # Null
    /\ Analysed("getLegalMoves", row, col, board[row][col].side,
                getLegalMovesRows(objects.rows, objects.live, row, col),
                getLegalMoves(row, col))

callGetAllLegalMovesRows(side) ==
    Analysed("getAllLegalMoves", -1, -1, side,
             GenerationRows(objects.rows, objects.live, side),
             getAllLegalMoves(side))

callGetBestMoveRows(side) ==
    Analysed("getBestMove", -1, -1, side,
             getBestMoveRows(objects.rows, objects.live, consecutiveChecks,
                             checkHistory, side),
             BestMoveOf(board, consecutiveChecks, checkHistory, side))

NextAnalysis ==
    \/ \E row \in RowIdx, col \in ColIdx : callGetLegalMovesRows(row, col)
    \/ \E side \in SIDE : callGetAllLegalMovesRows(side)
    \/ callGetBestMoveRows(currentTurn)

SpecAnalysis == InitAnalysis /\ [][NextAnalysis]_vars

\* ------------------------------------------------------------------------
\* server.js : rooms and relaying
\* ------------------------------------------------------------------------
\* the sockets that connect; a socket that has disconnected does not come back, a
\* client that connects again is another socket
Sockets == {"s1", "s2", "s3"}

\* the order in which they connect
Arrivals == <<"s1", "s2", "s3">>

\* the ids generateRoomId gives, in this order: it is taken to give an id that was
\* not given before
RoomIds == {1, 2}

\* how many make-move events are accepted
MaxRelayed == 2

\* what a client sends with make-move: coordinates of a move on the board and
\* coordinates that are on no board
Payloads ==
    { [fromRow |-> 6, fromCol |-> 0, toRow |-> 5, toCol |-> 0],
      [fromRow |-> -1, fromCol |-> 99, toRow |-> 10, toCol |-> 9] }

FirstMove == [fromRow |-> 6, fromCol |-> 0, toRow |-> 5, toCol |-> 0]

NoRoomId == 0

\* no room is created once this many games have started
MaxOpened == 2

RECURSIVE InSomeOrder(_)
InSomeOrder(S) ==
    IF S = {} THEN <<>>
    ELSE LET x == CHOOSE y \in S : TRUE IN <<x>> \o InSomeOrder(S \ {x})

\* an emit of io.to(roomId), which reaches the sender as well
ReachedWithSender(roomId, sender) ==
    {t \in Sockets : /\ server.sockets[t].state = "connected"
                     /\ roomId \in server.sockets[t].joined}

\* the sockets an emit of socket.to(roomId) reaches: the sockets that joined the
\* room and are connected, the sender left out
Reached(roomId, sender) ==
    {t \in Sockets : /\ t # sender
                     /\ server.sockets[t].state = "connected"
                     /\ roomId \in server.sockets[t].joined}

\* sent with one more event for every socket reached
SentTo(roomId, sender, event, payload) ==
    server.sent \o
    [i \in 1 .. Cardinality(Reached(roomId, sender)) |->
        [event |-> event, room |-> roomId, from |-> sender,
         to |-> InSomeOrder(Reached(roomId, sender))[i], payload |-> payload]]

InitServer ==
    /\ board = cloneBoard(INITIAL_BOARD)
    /\ currentTurn = RED
    /\ lastMove = NoMove
    /\ moveHistory = <<>>
    /\ gameOver = FALSE
    /\ winner = NullStr
    /\ loseReason = NullStr
    /\ inCheck = FALSE
    /\ consecutiveChecks = [red |-> 0, black |-> 0]
    /\ checkHistory = [red |-> <<>>, black |-> <<>>]
    /\ checkLimitReached = FALSE
    /\ lastCall = [op |-> "reset", ret |-> TRUE, error |-> NoError]
    /\ before = NoSnapshot
    /\ objects = NoObjects
    /\ store = NoStore
    /\ probe = NoProbe
    /\ app = NoApp
    /\ server = [listening |-> TRUE,
                 rooms |-> <<>>,
                 nextId |-> 1,
                 sockets |-> [t \in Sockets |->
                                 [state |-> "none", roomId |-> NoRoomId,
                                  playerSide |-> NullStr, joined |-> {}]],
                 sent |-> <<>>,
                 accepted |-> <<>>,
                 opened |-> <<>>,
                 asked |-> {}]

OutsideServer == <<gameFields, lastCall, before, objects, store, probe, app>>

\* io.on('connection')
on_connection(socket) ==
    /\ server.sockets[socket].state = "none"
    /\ \A i \in 1 .. Len(Arrivals) :
          Arrivals[i] = socket =>
              \A j \in 1 .. i - 1 : server.sockets[Arrivals[j]].state # "none"
    /\ server' = [server EXCEPT !.sockets[socket].state = "connected"]
    /\ UNCHANGED OutsideServer

\* socket.on('create-room') when generateRoomId() returns roomId: rooms.set
\* stores the new room under that id, whatever was stored there before
on_create_room_with(socket, roomId) ==
    /\ server.sockets[socket].state = "connected"
    /\ server' = [server EXCEPT
            !.rooms = [id \in DOMAIN server.rooms \cup {roomId} |->
                          IF id = roomId
                          THEN [players |-> <<[id |-> socket, side |-> RED]>>,
                                moves |-> <<>>, started |-> FALSE]
                          ELSE server.rooms[id]],
            !.nextId = IF roomId >= @ THEN roomId + 1 ELSE @,
            !.sockets[socket].joined = @ \cup {roomId},
            !.sockets[socket].roomId = roomId,
            !.sockets[socket].playerSide = RED]
    /\ UNCHANGED OutsideServer

\* socket.on('create-room') when generateRoomId() returns an id it has not
\* returned before
on_create_room(socket) ==
    /\ server.nextId \in RoomIds
    /\ on_create_room_with(socket, server.nextId)

\* join-room that lets a socket into a full room
on_join_room_unchecked(socket, roomId) ==
    /\ server.sockets[socket].state = "connected"
    /\ IF \/ roomId \notin DOMAIN server.rooms
          \/ server.rooms[roomId].players[1].id = socket
       THEN server' = server
       ELSE server' = [server EXCEPT
               !.rooms[roomId].players = Append(@, [id |-> socket, side |-> BLACK]),
               !.rooms[roomId].started = TRUE,
               !.sockets[socket].joined = @ \cup {roomId},
               !.sockets[socket].roomId = roomId,
               !.sockets[socket].playerSide = BLACK,
               !.opened = Append(@, [room |-> roomId,
                                     red |-> server.rooms[roomId].players[1].id,
                                     black |-> socket])]
    /\ UNCHANGED OutsideServer

\* socket.on('join-room'); opened keeps the players of every room that started
on_join_room(socket, roomId) ==
    /\ server.sockets[socket].state = "connected"
    /\ IF \/ roomId \notin DOMAIN server.rooms
          \/ Len(server.rooms[roomId].players) >= 2
          \/ server.rooms[roomId].players[1].id = socket
       THEN server' = server
       ELSE server' = [server EXCEPT
               !.rooms[roomId].players = Append(@, [id |-> socket, side |-> BLACK]),
               !.rooms[roomId].started = TRUE,
               !.sockets[socket].joined = @ \cup {roomId},
               !.sockets[socket].roomId = roomId,
               !.sockets[socket].playerSide = BLACK,
               !.opened = Append(@, [room |-> roomId,
                                     red |-> server.rooms[roomId].players[1].id,
                                     black |-> socket])]
    /\ UNCHANGED OutsideServer

\* socket.on('make-move'); accepted keeps the moves that were stored
on_make_move(socket, payload) ==
    /\ server.sockets[socket].state = "connected"
    /\ Len(server.accepted) < MaxRelayed
    /\ LET roomId == server.sockets[socket].roomId
       IN  IF \/ roomId = NoRoomId
              \/ roomId \notin DOMAIN server.rooms
              \/ ~server.rooms[roomId].started
           THEN server' = server
           ELSE server' = [server EXCEPT
                   !.rooms[roomId].moves =
                       Append(@, [fromRow |-> payload.fromRow, fromCol |-> payload.fromCol,
                                  toRow |-> payload.toRow, toCol |-> payload.toCol,
                                  side |-> server.sockets[socket].playerSide]),
                   !.sent = SentTo(roomId, socket, "opponent-move", payload),
                   !.accepted = Append(@, [room |-> roomId, from |-> socket,
                                           payload |-> payload])]
    /\ UNCHANGED OutsideServer

\* socket.on('request-restart'): restart-request goes to the other sockets of
\* the room; asked remembers who asked in which room and was not answered yet
on_request_restart(socket) ==
    /\ server.sockets[socket].state = "connected"
    /\ LET roomId == server.sockets[socket].roomId
       IN  IF roomId = NoRoomId
           THEN server' = server
           ELSE server' = [server EXCEPT !.asked = @ \cup {<<roomId, socket>>}]
    /\ UNCHANGED OutsideServer

\* socket.on('accept-restart')
on_accept_restart(socket) ==
    /\ server.sockets[socket].state = "connected"
    /\ LET roomId == server.sockets[socket].roomId
       IN  IF roomId = NoRoomId \/ roomId \notin DOMAIN server.rooms
           THEN server' = server
           ELSE server' = [server EXCEPT
                   !.rooms[roomId].moves = <<>>,
                   !.asked = {a \in @ : a[1] # roomId}]
    /\ UNCHANGED OutsideServer

\* socket.on('decline-restart'): restart-declined goes to the other sockets of
\* the room, whose requests are answered by it
on_decline_restart(socket) ==
    /\ server.sockets[socket].state = "connected"
    /\ LET roomId == server.sockets[socket].roomId
       IN  IF roomId = NoRoomId
           THEN server' = server
           ELSE server' = [server EXCEPT
                   !.asked = {a \in @ : a[1] # roomId \/ a[2] = socket}]
    /\ UNCHANGED OutsideServer

\* socket.on('disconnect'): the socket has left the rooms it joined
on_disconnect(socket) ==
    /\ server.sockets[socket].state = "connected"
    /\ LET roomId == server.sockets[socket].roomId
           left == [server EXCEPT !.sockets[socket].state = "gone",
                                  !.sockets[socket].joined = {}]
       IN  IF roomId = NoRoomId \/ roomId \notin DOMAIN server.rooms
           THEN server' = left
           ELSE server' = [left EXCEPT
                   !.sent = SentTo(roomId, socket, "opponent-disconnect", NoMove),
                   !.rooms = [id \in DOMAIN server.rooms \ {roomId} |-> server.rooms[id]]]
    /\ UNCHANGED OutsideServer

NextServer ==
    \/ \E socket \in Sockets : on_connection(socket)
    \/ \E socket \in Sockets : on_create_room(socket)
    \/ \E socket \in Sockets, roomId \in RoomIds : on_join_room(socket, roomId)
    \/ \E socket \in Sockets, payload \in Payloads : on_make_move(socket, payload)
    \/ \E socket \in Sockets : on_accept_restart(socket)
    \/ \E socket \in Sockets : on_disconnect(socket)

SpecServer == InitServer /\ [][NextServer]_vars

\* the server when generateRoomId() may return any id, used before or not
NextServerAnyId ==
    \/ \E socket \in Sockets : on_connection(socket)
    \/ \E socket \in Sockets, roomId \in RoomIds :
          Len(server.opened) < MaxOpened /\ on_create_room_with(socket, roomId)
    \/ \E socket \in Sockets, roomId \in RoomIds : on_join_room(socket, roomId)
    \/ \E socket \in Sockets : on_disconnect(socket)

SpecServerAnyId == InitServer /\ [][NextServerAnyId]_vars

\* the server with the three restart messages
NextServerRestart ==
    \/ \E socket \in Sockets : on_connection(socket)
    \/ \E socket \in Sockets : on_create_room(socket)
    \/ \E socket \in Sockets, roomId \in RoomIds : on_join_room(socket, roomId)
    \/ \E socket \in Sockets : on_make_move(socket, FirstMove)
    \/ \E socket \in Sockets : on_request_restart(socket)
    \/ \E socket \in Sockets : on_accept_restart(socket)
    \/ \E socket \in Sockets : on_decline_restart(socket)

SpecServerRestart == InitServer /\ [][NextServerRestart]_vars

\* ------------------------------------------------------------------------
\* js/main.js, network client, server.js : two pages playing online
\* ------------------------------------------------------------------------
\* The page of the red player and the page of the black player each hold a Game
\* of their own: app.peers[side].game. frames are the animations of a page whose
\* callback has not run yet, in the order they were started (all last 200 ms),
\* modal tells whether its restart dialog is open. server.up[side] are the
\* messages the socket of a side has emitted and the server has not handled,
\* server.down[side] the ones emitted to it and not received, both in order.

\* the squares the two players click on
OnlineSquares == { <<6, 0>>, <<5, 0>>, <<3, 0>>, <<4, 0>> }

\* the animations a page can have running at once
MaxPending == 1

\* the restart requests made in a run
MaxAsked == 1

\* the fields of a Game after reset()
NewGameRecord ==
    [board |-> cloneBoard(INITIAL_BOARD), currentTurn |-> RED, lastMove |-> NoMove,
     moveHistory |-> <<>>, gameOver |-> FALSE, winner |-> NullStr, loseReason |-> NullStr,
     inCheck |-> FALSE, consecutiveChecks |-> [red |-> 0, black |-> 0],
     checkHistory |-> [red |-> <<>>, black |-> <<>>], checkLimitReached |-> FALSE]

\* makeMove on the Game g: the Game it leaves
makeMoveOn(g, fromRow, fromCol, toRow, toCol) ==
    LET piece == g.board[fromRow][fromCol]
        legalMoves == LegalMovesOf(g.board, g.consecutiveChecks, g.checkHistory, fromRow, fromCol)
        newBoard == applyMove(g.board, fromRow, fromCol, toRow, toCol)
        newTurn == SwitchTurn(g.currentTurn)
        newInCheck == isInCheck(newBoard, newTurn)
        newChecks == TrackChecks(g.consecutiveChecks, piece.side, newInCheck)
        newHistory == TrackHistory(g.checkHistory, piece.side, newInCheck,
                                   PieceKey(piece.type, fromRow, fromCol), toRow, toCol)
        newLimit == newChecks[newTurn] >= 3
        hasLegalMoves == AllLegalMovesOf(newBoard, newChecks, newHistory, newTurn) # {}
    IN  IF g.gameOver THEN g
        ELSE IF piece = Null \/ piece.side # g.currentTurn THEN g
        ELSE IF <<toRow, toCol>> \notin legalMoves THEN g
        ELSE [board |-> newBoard,
              currentTurn |-> newTurn,
              lastMove |-> [fromRow |-> fromRow, fromCol |-> fromCol,
                            toRow |-> toRow, toCol |-> toCol],
              moveHistory |-> Append(g.moveHistory,
                                [fromRow |-> fromRow, fromCol |-> fromCol,
                                 toRow |-> toRow, toCol |-> toCol,
                                 piece |-> piece, captured |-> g.board[toRow][toCol],
                                 board |-> cloneBoard(g.board),
                                 prevConsecutiveChecks |-> g.consecutiveChecks,
                                 prevCheckHistory |-> g.checkHistory]),
              gameOver |-> ~hasLegalMoves,
              winner |-> IF hasLegalMoves THEN g.winner ELSE SwitchTurn(newTurn),
              loseReason |-> IF hasLegalMoves THEN g.loseReason
                             ELSE IF newLimit THEN "perpetual-check" ELSE "checkmate",
              inCheck |-> newInCheck,
              consecutiveChecks |-> newChecks,
              checkHistory |-> newHistory,
              checkLimitReached |-> newLimit]

\* both players are in a started room, onGameStart has run startGame('online')
InitOnline ==
    /\ NewGame
    /\ board = cloneBoard(INITIAL_BOARD)
    /\ objects = NoObjects
    /\ store = NoStore
    /\ probe = NoProbe
    /\ app = [mode |-> "online", asked |-> 0,
              peers |-> [side \in SIDE |->
                            [game |-> NewGameRecord, frames |-> <<>>, modal |-> FALSE]]]
    /\ server = [listening |-> TRUE,
                 up |-> [side \in SIDE |-> <<>>],
                 down |-> [side \in SIDE |-> <<>>]]

OutsideOnline == <<gameFields, lastCall, before, objects, store, probe>>

Message(event, move) == [event |-> event, move |-> move]

\* handleCanvasClick in online mode on a destination of the selected piece: the
\* animation of the move starts
clickOnline(side, from, to) ==
    LET peer == app.peers[side]
        piece == peer.game.board[from[1]][from[2]]
    IN  /\ ~peer.game.gameOver
        /\ peer.game.currentTurn = side
        /\ piece # Null /\ piece.side = side
        /\ to \in LegalMovesOf(peer.game.board, peer.game.consecutiveChecks,
                                peer.game.checkHistory, from[1], from[2])
        /\ Len(peer.frames) < MaxPending
        /\ app' = [app EXCEPT !.peers[side].frames =
                       Append(@, [own |-> TRUE,
                                  move |-> [fromRow |-> from[1], fromCol |-> from[2],
                                            toRow |-> to[1], toCol |-> to[2]]])]
        /\ UNCHANGED <<server, OutsideOnline>>

\* the callback of the oldest animation of a page: makeMove, and for a move of
\* the page's own player sendMove, whatever makeMove returned
animationDone(side) ==
    LET peer == app.peers[side]
        frame == Head(peer.frames)
    IN  /\ peer.frames # <<>>
        /\ app' = [app EXCEPT
                       !.peers[side].frames = Tail(@),
                       !.peers[side].game = makeMoveOn(@, frame.move.fromRow, frame.move.fromCol,
                                                      frame.move.toRow, frame.move.toCol)]
        /\ server' = IF frame.own
                      THEN [server EXCEPT !.up[side] = Append(@, Message("make-move", frame.move))]
                      ELSE server
        /\ UNCHANGED OutsideOnline

\* handleRestart in online mode: requestRestart
pressRestart(side) ==
    /\ app.asked < MaxAsked
    /\ app' = [app EXCEPT !.asked = @ + 1]
    /\ server' = [server EXCEPT !.up[side] = Append(@, Message("request-restart", NoMove))]
    /\ UNCHANGED OutsideOnline

\* the buttons of the restart dialog
pressAccept(side) ==
    /\ app.peers[side].modal
    /\ app' = [app EXCEPT !.peers[side].modal = FALSE]
    /\ server' = [server EXCEPT !.up[side] = Append(@, Message("accept-restart", NoMove))]
    /\ UNCHANGED OutsideOnline

pressDecline(side) ==
    /\ app.peers[side].modal
    /\ app' = [app EXCEPT !.peers[side].modal = FALSE]
    /\ server' = [server EXCEPT !.up[side] = Append(@, Message("decline-restart", NoMove))]
    /\ UNCHANGED OutsideOnline

\* the server handles the oldest message of a socket: make-move, request-restart
\* and decline-restart go on to the other socket of the room, accept-restart
\* has game-restart emitted to both
serverHandles(side) ==
    /\ server.up[side] # <<>>
    /\ LET msg == Head(server.up[side])
           taken == [server EXCEPT !.up[side] = Tail(@)]
       IN  server' =
             IF msg.event = "make-move"
             THEN [taken EXCEPT !.down[Opp(side)] = Append(@, Message("opponent-move", msg.move))]
             ELSE IF msg.event = "request-restart"
             THEN [taken EXCEPT !.down[Opp(side)] = Append(@, Message("restart-request", NoMove))]
             ELSE IF msg.event = "accept-restart"
             THEN [taken EXCEPT !.down[RED] = Append(@, Message("game-restart", NoMove)),
                                !.down[BLACK] = Append(@, Message("game-restart", NoMove))]
             ELSE [taken EXCEPT !.down[Opp(side)] = Append(@, Message("restart-declined", NoMove))]
    /\ UNCHANGED <<app, OutsideOnline>>

\* a page receives the oldest message emitted to it: onOpponentMove starts the
\* animation (the callback runs at once when the square the move starts from is
\* empty), onRestartRequest opens the dialog, onGameRestart resets the game
pageReceives(side) ==
    /\ server.down[side] # <<>>
    /\ LET msg == Head(server.down[side])
           peer == app.peers[side]
       IN  app' =
             IF msg.event = "opponent-move"
             THEN IF peer.game.board[msg.move.fromRow][msg.move.fromCol] = Null
                  THEN [app EXCEPT !.peers[side].game =
                           makeMoveOn(@, msg.move.fromRow, msg.move.fromCol,
                                      msg.move.toRow, msg.move.toCol)]
                  ELSE [app EXCEPT !.peers[side].frames =
                           Append(@, [own |-> FALSE, move |-> msg.move])]
             ELSE IF msg.event = "restart-request"
             THEN [app EXCEPT !.peers[side].modal = TRUE]
             ELSE IF msg.event = "game-restart"
             THEN [app EXCEPT !.peers[side].game = NewGameRecord]
             ELSE app
    /\ server' = [server EXCEPT !.down[side] = Tail(@)]
    /\ UNCHANGED OutsideOnline

NextOnline ==
    \/ \E side \in SIDE, from \in OnlineSquares, to \in OnlineSquares :
          clickOnline(side, from, to)
    \/ \E side \in SIDE : animationDone(side)
    \/ \E side \in SIDE : pressRestart(side)
    \/ \E side \in SIDE : pressAccept(side)
    \/ \E side \in SIDE : pressDecline(side)
    \/ \E side \in SIDE : serverHandles(side)
    \/ \E side \in SIDE : pageReceives(side)

SpecOnline == InitOnline /\ [][NextOnline]_vars

\* ------------------------------------------------------------------------
\* Properties
\* ------------------------------------------------------------------------
\* the king of side stands on a cell some piece of the other side can move to
KingAttacked(b, side) ==
    \E kr \in RowIdx, kc \in ColIdx :
        /\ b[kr][kc] = p(KING, side)
        /\ \E r \in RowIdx, c \in ColIdx :
              /\ b[r][c] # Null
              /\ b[r][c].side # side
              /\ <<kr, kc>> \in getPieceMoves(b, r, c)

\* the two kings on one column with no piece strictly between them
KingsFace(b) ==
    \E c \in ColIdx, rb \in RowIdx, rr \in RowIdx :
        /\ b[rb][c] = p(KING, BLACK)
        /\ b[rr][c] = p(KING, RED)
        /\ \A r \in (Min(rb, rr) + 1) .. (Max(rb, rr) - 1) : b[r][c] = Null

Occupied == {pos \in RowIdx \X ColIdx : board[pos[1]][pos[2]] # Null}

PiecesOf(side) == {pos \in Occupied : board[pos[1]][pos[2]].side = side}

AcceptedMove == lastCall.op = "makeMove" /\ lastCall.ret

\* C1: no destination getLegalMoves returns for any piece on a reachable board leads
\* to a board where the mover's own king is attacked or where the two kings face
\* each other on an open column.
C1_LegalMovesKeepKingSafe ==
    \A pos \in Occupied :
        \A m \in getLegalMoves(pos[1], pos[2]) :
            LET after == applyMove(board, pos[1], pos[2], m[1], m[2])
            IN  /\ ~KingAttacked(after, board[pos[1]][pos[2]].side)
                /\ ~KingsFace(after)

\* after at least one move, getLegalMoves has dropped a pseudo-legal destination
\* that would expose the mover's king and one that would make the kings face
C1_Witness ==
    /\ Len(moveHistory) > 0
    /\ \E pos \in Occupied :
          \E m \in getPieceMoves(board, pos[1], pos[2]) \ getLegalMoves(pos[1], pos[2]) :
              KingAttacked(applyMove(board, pos[1], pos[2], m[1], m[2]),
                           board[pos[1]][pos[2]].side)
    /\ \E pos \in Occupied :
          \E m \in getPieceMoves(board, pos[1], pos[2]) \ getLegalMoves(pos[1], pos[2]) :
              KingsFace(applyMove(board, pos[1], pos[2], m[1], m[2]))

\* C2: a makeMove call returns true only when the game is not over, the source holds
\* a piece of the side to move and the destination is one of its legal moves; a call
\* that returns false changes no field of the game.
C2_RejectedMoveChangesNothing ==
    [][lastCall'.op = "makeMove" =>
          IF lastCall'.ret
          THEN /\ ~gameOver
               /\ board[lastMove'.fromRow][lastMove'.fromCol] # Null
               /\ board[lastMove'.fromRow][lastMove'.fromCol].side = currentTurn
               /\ <<lastMove'.toRow, lastMove'.toCol>>
                     \in getLegalMoves(lastMove'.fromRow, lastMove'.fromCol)
          ELSE UNCHANGED gameFields]_vars

\* a call was rejected on a game that a move had ended
C2_Witness ==
    /\ lastCall = [op |-> "makeMove", ret |-> FALSE, error |-> NoError]
    /\ Len(moveHistory) > 0
    /\ gameOver

\* C3: undoMove right after an accepted makeMove returns true and restores board,
\* currentTurn, consecutiveChecks, checkHistory and moveHistory to what they were
\* before the move.
C3_UndoRestoresPreMoveState ==
    [][(AcceptedMove /\ lastCall'.op = "undoMove") =>
          /\ lastCall'.ret
          /\ board' = before.board
          /\ currentTurn' = before.currentTurn
          /\ consecutiveChecks' = before.consecutiveChecks
          /\ checkHistory' = before.checkHistory
          /\ moveHistory' = before.moveHistory]_vars

\* an undo has brought back a position with a running check streak
C3_Witness ==
    /\ lastCall = [op |-> "undoMove", ret |-> TRUE, error |-> NoError]
    /\ consecutiveChecks[RED] >= 2
    /\ Len(moveHistory) >= 3

SideHasLegalMove(side) ==
    \E pos \in PiecesOf(side) : getLegalMoves(pos[1], pos[2]) # {}

\* C4: gameOver holds exactly when the side to move has no legal move; then winner
\* is the other side; while the game is not over winner and loseReason are null.
C4_GameOverIffNoLegalMove ==
    /\ gameOver <=> ~SideHasLegalMove(currentTurn)
    /\ gameOver => winner = Opp(currentTurn)
    /\ ~gameOver => (winner = NullStr /\ loseReason = NullStr)

\* a move has ended the game
C4_Witness ==
    /\ gameOver
    /\ AcceptedMove
    /\ winner = BLACK
    /\ currentTurn = RED

\* the destinations of the piece at pos that check the opponent with a pattern
\* already in the checkHistory of its side
RepeatedChecks(pos) ==
    LET piece == board[pos[1]][pos[2]]
    IN  {m \in getPieceMoves(board, pos[1], pos[2]) :
            /\ KingAttacked(applyMove(board, pos[1], pos[2], m[1], m[2]), Opp(piece.side))
            /\ \E i \in 1 .. Len(checkHistory[piece.side]) :
                  checkHistory[piece.side][i] =
                      [pieceKey |-> PieceKey(piece.type, pos[1], pos[2]),
                       toRow |-> m[1], toCol |-> m[2]]}

\* C5: once consecutiveChecks[S] >= 3, getLegalMoves of a piece of S holds no
\* destination that checks the opponent with a {piece type, origin, destination}
\* already recorded in checkHistory[S].
C5_RepeatedCheckExcluded ==
    \A pos \in Occupied :
        consecutiveChecks[board[pos[1]][pos[2]].side] >= 3 =>
            RepeatedChecks(pos) \cap getLegalMoves(pos[1], pos[2]) = {}

\* red has checked three times running and its chariot could repeat one of the
\* checks, the king safe, if it were not for the rule
C5_Witness ==
    /\ consecutiveChecks[RED] >= 3
    /\ currentTurn = RED
    /\ \E pos \in PiecesOf(RED) :
          \E m \in RepeatedChecks(pos) :
              LET after == applyMove(board, pos[1], pos[2], m[1], m[2])
              IN  ~KingAttacked(after, RED) /\ ~KingsFace(after)

\* the side has a move that is legal once the repeated-check rule is ignored
HasMoveIgnoringRepeats(side) ==
    \E pos \in PiecesOf(side) :
        LegalMovesOf(board, [red |-> 0, black |-> 0], [red |-> <<>>, black |-> <<>>],
                     pos[1], pos[2]) # {}

\* C6: when the game is over, loseReason is perpetual-check exactly when the side
\* to move would have a legal move without the repeated-check rule, and checkmate
\* otherwise.
C6_LoseReasonExact ==
    gameOver =>
        /\ loseReason = "perpetual-check" <=> HasMoveIgnoringRepeats(currentTurn)
        /\ loseReason = "checkmate" <=> ~HasMoveIgnoringRepeats(currentTurn)

\* C7: the board always holds exactly one red king and exactly one black king.
C7_OneKingPerSide ==
    /\ Cardinality(KingCells(board, RED)) = 1
    /\ Cardinality(KingCells(board, BLACK)) = 1

\* a piece has been captured and the king that captured it is still alone of its side
C7_Witness ==
    /\ \E i \in 1 .. Len(moveHistory) :
          moveHistory[i].captured # Null /\ moveHistory[i].piece.type = KING
    /\ Cardinality(KingCells(board, RED)) = 1
    /\ Cardinality(KingCells(board, BLACK)) = 1

\* C8: an accepted move of side S sets consecutiveChecks[S] to its old value plus
\* one when the opponent's king is attacked afterwards and to 0 otherwise, and
\* leaves consecutiveChecks and checkHistory of the opponent unchanged.
C8_OnlyMoverStreakUpdated ==
    [][(lastCall'.op = "makeMove" /\ lastCall'.ret) =>
          LET S == currentTurn
              O == Opp(currentTurn)
          IN  /\ consecutiveChecks'[S] =
                    (IF KingAttacked(board', O) THEN consecutiveChecks[S] + 1 ELSE 0)
              /\ consecutiveChecks'[O] = consecutiveChecks[O]
              /\ checkHistory'[O] = checkHistory[O]]_vars

\* red has just made a quiet move that ended a streak of two checks
C8_Witness ==
    /\ AcceptedMove
    /\ currentTurn = BLACK
    /\ before.consecutiveChecks[RED] = 2
    /\ consecutiveChecks[RED] = 0

\* C9: for each side the number of entries of checkHistory equals consecutiveChecks,
\* so the history is empty whenever the counter is 0.
C9_HistoryLengthIsStreak ==
    \A side \in SIDE : Len(checkHistory[side]) = consecutiveChecks[side]

\* a streak has been reset by a quiet move after two checks
C9_Witness ==
    /\ AcceptedMove
    /\ before.consecutiveChecks[RED] = 2
    /\ checkHistory[RED] = <<>>
    /\ Len(moveHistory) >= 5

TurnMatchesHistory == (currentTurn = RED) <=> (Len(moveHistory) % 2 = 0)

\* C10: an accepted makeMove flips currentTurn and appends one record to moveHistory,
\* a rejected one changes neither; currentTurn is red exactly when moveHistory has
\* even length.
C10_TurnAlternates ==
    /\ []TurnMatchesHistory
    /\ [][lastCall'.op = "makeMove" =>
            IF lastCall'.ret
            THEN /\ currentTurn' = Opp(currentTurn)
                 /\ Len(moveHistory') = Len(moveHistory) + 1
                 /\ SubSeq(moveHistory', 1, Len(moveHistory)) = moveHistory
            ELSE UNCHANGED <<currentTurn, moveHistory>>]_vars

\* black is to move after three accepted moves, the last one not undone
C10_Witness ==
    /\ AcceptedMove
    /\ currentTurn = BLACK
    /\ Len(moveHistory) = 3

\* C11: makeMove called with any four integers, coordinates off the board included,
\* ends by returning a boolean, never by raising, and when it returns false no
\* field of the game has changed.
C11_MakeMoveTotal ==
    [][lastCall'.op = "makeMove" =>
          /\ lastCall'.error = NoError
          /\ ~lastCall'.ret => UNCHANGED gameFields]_vars

\* C12: undoMove called while moveHistory is empty returns false, raises nothing
\* and changes no field of the game, so that undos from the reset state, however
\* many, leave the reset state.
C12_UndoOnEmptyHistory ==
    [][(Len(moveHistory) = 0 /\ lastCall'.op = "undoMove") =>
          /\ lastCall'.ret = FALSE
          /\ lastCall'.error = NoError
          /\ UNCHANGED gameFields]_vars

\* undoMove has just answered false on the game as reset leaves it
C12_Witness ==
    /\ lastCall = [op |-> "undoMove", ret |-> FALSE, error |-> NoError]
    /\ board = INITIAL_BOARD
    /\ currentTurn = RED
    /\ moveHistory = <<>>
    /\ lastMove = NoMove
    /\ ~gameOver /\ winner = NullStr /\ loseReason = NullStr /\ ~inCheck
    /\ consecutiveChecks = [red |-> 0, black |-> 0]
    /\ checkHistory = [red |-> <<>>, black |-> <<>>]
    /\ ~checkLimitReached

\* the position a record of moveHistory holds, read through its row arrays
StoredBoard(i) == BoardAt(objects.rows, objects.hist[i])

\* the names of the row arrays of a board
RowNames(ids) == {ids[r] : r \in RowIdx}

\* C13: the board kept in each moveHistory record is the position that stood on the
\* live board just before that record's move, the live board shares no row array
\* with a kept record, and no makeMove or undoMove changes the board of a record
\* that stays in moveHistory.
C13_HistoryBoardsAreSnapshots ==
    /\ [](/\ Len(objects.hist) = Len(moveHistory)
          /\ BoardAt(objects.rows, objects.live) = board
          /\ \A i \in 1 .. Len(objects.hist) :
                /\ StoredBoard(i) = moveHistory[i].board
                /\ RowNames(objects.hist[i]) \cap RowNames(objects.live) = {}
          /\ (AcceptedMove => StoredBoard(Len(objects.hist)) = before.board))
    /\ [][\A i \in 1 .. Min(Len(objects.hist), Len(objects.hist')) :
            BoardAt(objects'.rows, objects'.hist[i]) = StoredBoard(i)]_vars

\* a move made on a game that holds a record already: two records are kept, they
\* hold different positions, and the live board has moved on from the last of them
C13_Witness ==
    /\ AcceptedMove
    /\ Len(objects.hist) >= 2
    /\ StoredBoard(1) # StoredBoard(2)
    /\ StoredBoard(Len(objects.hist)) # BoardAt(objects.rows, objects.live)

\* C14: writing the game out with toJSON, encoding and decoding it as JSON and
\* loading the result with fromJSON gives a game equal to the one written in board,
\* currentTurn, moveHistory, lastMove, gameOver, winner, loseReason, inCheck,
\* consecutiveChecks, checkHistory, and in checkLimitReached, which toJSON does not
\* write.
C14_SaveLoadRoundTrip ==
    [][lastCall'.op = "fromJSON" =>
          /\ board' = board /\ currentTurn' = currentTurn
          /\ moveHistory' = moveHistory /\ lastMove' = lastMove
          /\ gameOver' = gameOver /\ winner' = winner /\ loseReason' = loseReason
          /\ inCheck' = inCheck /\ consecutiveChecks' = consecutiveChecks
          /\ checkHistory' = checkHistory
          /\ checkLimitReached' = checkLimitReached]_vars

\* a game loaded back with the check limit reached, a history of moves and of checks
C14_Witness ==
    /\ lastCall.op = "fromJSON"
    /\ checkLimitReached
    /\ Len(moveHistory) > 0 /\ lastMove # NoMove
    /\ Len(checkHistory[currentTurn]) > 0

\* C15: loading a saved state that lacks board or currentTurn is abandoned: the
\* load reports failure and leaves the live game as it was or freshly reset, with a
\* board and a turn; a saved state that lacks only other fields loads, each missing
\* field taking its default.
C15_LoadWithoutBoardOrTurnAbandoned ==
    [][lastCall'.op = "resumeGame" =>
          LET given == DOMAIN store.doc.v
          IN  IF {"board", "currentTurn"} \subseteq given
              THEN /\ lastCall'.ret
                   /\ "moveHistory" \notin given => moveHistory' = <<>>
                   /\ "lastMove" \notin given => lastMove' = NoMove
                   /\ "gameOver" \notin given => gameOver' = FALSE
                   /\ "winner" \notin given => winner' = NullStr
                   /\ "loseReason" \notin given => loseReason' = NullStr
                   /\ "inCheck" \notin given => inCheck' = FALSE
                   /\ "consecutiveChecks" \notin given =>
                          consecutiveChecks' = [red |-> 0, black |-> 0]
                   /\ "checkHistory" \notin given =>
                          checkHistory' = [red |-> <<>>, black |-> <<>>]
              ELSE /\ ~lastCall'.ret
                   /\ board' # UndefinedBoard
                   /\ currentTurn' \in SIDE
                   /\ \/ UNCHANGED gameFields
                      \/ /\ board' = INITIAL_BOARD /\ currentTurn' = RED
                         /\ moveHistory' = <<>> /\ lastMove' = NoMove
                         /\ ~gameOver' /\ ~inCheck' /\ ~checkLimitReached']_vars

\* the piece the last call of getPieceMoves was made on
Probed == board[probe.row][probe.col]

ProbedMovesOf(type) == probe.fn = "getPieceMoves" /\ Probed.type = type

\* the cells strictly between two cells of one row or of one column
Between(a, b) ==
    IF a[1] = b[1] THEN {<<a[1], c>> : c \in (Min(a[2], b[2]) + 1) .. (Max(a[2], b[2]) - 1)}
    ELSE IF a[2] = b[2] THEN {<<r, a[2]>> : r \in (Min(a[1], b[1]) + 1) .. (Max(a[1], b[1]) - 1)}
    ELSE {}

\* two different cells of one row or of one column
OnLine(a, b) == a # b /\ (a[1] = b[1] \/ a[2] = b[2])

\* how many pieces stand strictly between two cells
Screens(a, b) == Cardinality({x \in Between(a, b) : board[x[1]][x[2]] # Null})

Empty(cell) == board[cell[1]][cell[2]] = Null

EnemyOn(cell, side) == ~Empty(cell) /\ board[cell[1]][cell[2]].side # side

\* C16: isInCheck(board, side) is true exactly when side has no king on the board or
\* some piece of the other side has the king's cell among its getPieceMoves
\* destinations; it is true for the black king on (0,4) with a red chariot anywhere
\* on column 4 and nothing between them.
C16_IsInCheckExact ==
    probe.fn = "isInCheck" =>
        /\ probe.result <=>
              \/ ~\E cell \in Cells : board[cell[1]][cell[2]] = p(KING, probe.side)
              \/ KingAttacked(board, probe.side)
        /\ ( /\ probe.side = BLACK
             /\ board[0][4] = p(KING, BLACK)
             /\ \E r \in 1 .. 9 : /\ board[r][4] = p(CHARIOT, RED)
                                  /\ \A x \in 1 .. (r - 1) : board[x][4] = Null )
           => probe.result

\* the black king on (0,4), the red chariot on (5,4), column 4 empty between them,
\* and isInCheck has answered true for black
C16_Witness ==
    /\ probe.fn = "isInCheck" /\ probe.side = BLACK /\ probe.result
    /\ board[0][4] = p(KING, BLACK)
    /\ board[5][4] = p(CHARIOT, RED)
    /\ \A x \in 1 .. 4 : board[x][4] = Null

\* C17: the destinations of a chariot are, in each of the four directions, the empty
\* cells up to the first occupied cell, and that cell when an enemy piece stands on
\* it; a chariot on (9,0) never has (9,4) as destination while (9,3) is occupied.
C17_ChariotDestinations ==
    ProbedMovesOf(CHARIOT) =>
        LET at == <<probe.row, probe.col>>
        IN  /\ probe.result =
                  {t \in Cells : /\ OnLine(at, t)
                                 /\ Screens(at, t) = 0
                                 /\ Empty(t) \/ EnemyOn(t, probe.side)}
            /\ (at = <<9, 0>> /\ ~Empty(<<9, 3>>)) => <<9, 4>> \notin probe.result

\* a chariot on (9,0) that takes the enemy piece on (9,3) and goes no further
C17_Witness ==
    /\ ProbedMovesOf(CHARIOT) /\ probe.row = 9 /\ probe.col = 0
    /\ EnemyOn(<<9, 3>>, probe.side) /\ Empty(<<9, 1>>) /\ Empty(<<9, 2>>)
    /\ <<9, 3>> \in probe.result /\ <<9, 2>> \in probe.result
    /\ <<9, 4>> \notin probe.result
    /\ Empty(<<9, 4>>)

\* C18: the destinations of a cannon are, in each direction, the empty cells before
\* the first occupied cell (the platform), and the first occupied cell beyond the
\* platform when an enemy piece stands on it: never the platform, never an empty
\* cell beyond it, never a capture with no piece or with two or more in between.
C18_CannonDestinations ==
    ProbedMovesOf(CANNON) =>
        LET at == <<probe.row, probe.col>>
        IN  /\ probe.result =
                  {t \in Cells : /\ OnLine(at, t)
                                 /\ \/ Screens(at, t) = 0 /\ Empty(t)
                                    \/ Screens(at, t) = 1 /\ EnemyOn(t, probe.side)}
            /\ \A t \in probe.result :
                  /\ Empty(t) => Screens(at, t) = 0
                  /\ ~Empty(t) => Screens(at, t) = 1

\* a cannon on (4,4) with a platform on (4,5): it does not land on the empty (4,6),
\* takes the enemy piece on (4,7), and takes nothing on the left, where an enemy
\* piece stands next to it on (4,3)
C18_Witness ==
    /\ ProbedMovesOf(CANNON) /\ probe.row = 4 /\ probe.col = 4
    /\ ~Empty(<<4, 5>>) /\ Empty(<<4, 6>>) /\ EnemyOn(<<4, 7>>, probe.side)
    /\ EnemyOn(<<4, 3>>, probe.side)
    /\ <<4, 7>> \in probe.result
    /\ probe.result \cap {<<4, 3>>, <<4, 5>>, <<4, 6>>} = {}

\* C19: the destinations of a horse are the cells on the board one step along a row
\* or a column and then one step diagonally outwards, for which the cell of the
\* first step (the leg) is empty and the destination is empty or holds an enemy
\* piece.
C19_HorseDestinations ==
    ProbedMovesOf(HORSE) =>
        probe.result =
            {t \in Cells :
                \E d \in {<<-1, 0>>, <<1, 0>>, <<0, -1>>, <<0, 1>>}, w \in {-1, 1} :
                    /\ t = <<probe.row + 2 * d[1] + w * d[2], probe.col + 2 * d[2] + w * d[1]>>
                    /\ Empty(<<probe.row + d[1], probe.col + d[2]>>)
                    /\ Empty(t) \/ EnemyOn(t, probe.side)}

\* a horse on (4,4) hobbled upwards by a piece on (3,4) and free downwards: it takes
\* the enemy piece on (6,3) and has no destination on row 2
C19_Witness ==
    /\ ProbedMovesOf(HORSE) /\ probe.row = 4 /\ probe.col = 4
    /\ ~Empty(<<3, 4>>) /\ Empty(<<5, 4>>) /\ EnemyOn(<<6, 3>>, probe.side)
    /\ <<6, 3>> \in probe.result /\ <<6, 5>> \in probe.result
    /\ \A t \in probe.result : t[1] # 2

\* C20: the destinations of an elephant are the cells on the board two diagonal
\* steps away for which the cell in between (the eye) is empty, the destination row
\* lies on the elephant's own half (rows 5 to 9 for red, 0 to 4 for black) and the
\* destination is empty or holds an enemy piece.
C20_ElephantDestinations ==
    ProbedMovesOf(ELEPHANT) =>
        probe.result =
            {t \in Cells :
                \E b \in {<<1, 1>>, <<1, -1>>, <<-1, 1>>, <<-1, -1>>} :
                    /\ t = <<probe.row + 2 * b[1], probe.col + 2 * b[2]>>
                    /\ Empty(<<probe.row + b[1], probe.col + b[2]>>)
                    /\ IF probe.side = RED THEN t[1] \in 5 .. 9 ELSE t[1] \in 0 .. 4
                    /\ Empty(t) \/ EnemyOn(t, probe.side)}

\* a red elephant on (5,2), all four eyes empty: it takes the enemy piece on (7,0)
\* and has no destination across the river, (3,0) and (3,4) being empty
C20_Witness ==
    /\ ProbedMovesOf(ELEPHANT) /\ probe.side = RED /\ probe.row = 5 /\ probe.col = 2
    /\ Empty(<<4, 1>>) /\ Empty(<<4, 3>>) /\ Empty(<<6, 1>>) /\ Empty(<<6, 3>>)
    /\ Empty(<<3, 0>>) /\ Empty(<<3, 4>>)
    /\ EnemyOn(<<7, 0>>, RED)
    /\ probe.result = {<<7, 0>>, <<7, 4>>}

\* C21: the destinations of a soldier are the cell one step forward (row - 1 for red,
\* row + 1 for black) and, only when the soldier stands beyond the river (row <= 4
\* for red, row >= 5 for black), the two cells one step sideways, each kept only if
\* on the board and not held by an own piece; from the initial position
\* makeMove(6,0,5,0) succeeds and leaves black to move.
C21_SoldierDestinations ==
    /\ [](ProbedMovesOf(SOLDIER) =>
            LET at == <<probe.row, probe.col>>
                fwd == IF probe.side = RED THEN -1 ELSE 1
                beyond == IF probe.side = RED THEN at[1] <= 4 ELSE at[1] >= 5
            IN  probe.result =
                    {t \in Cells :
                        /\ \/ t = <<at[1] + fwd, at[2]>>
                           \/ beyond /\ t \in {<<at[1], at[2] - 1>>, <<at[1], at[2] + 1>>}
                        /\ Empty(t) \/ EnemyOn(t, probe.side)})
    /\ [][(/\ board = INITIAL_BOARD
            /\ moveHistory = <<>>
            /\ currentTurn = RED
            /\ makeMove(6, 0, 5, 0))
           => /\ lastCall'.ret
              /\ lastCall'.error = NoError
              /\ currentTurn' = BLACK
              /\ board'[5][0] = p(SOLDIER, RED)
              /\ board'[6][0] = Null]_vars

\* a game from the initial position that opened with the soldier (6,0) to (5,0);
\* the soldier has since taken the black soldier on (4,0), stands beyond the river
\* on the edge column, and has the cell before it and the one cell beside it as
\* destinations
C21_Witness ==
    /\ Len(moveHistory) = 3
    /\ moveHistory[1].board = INITIAL_BOARD
    /\ moveHistory[1].fromRow = 6 /\ moveHistory[1].fromCol = 0
    /\ moveHistory[1].toRow = 5 /\ moveHistory[1].toCol = 0
    /\ moveHistory[2].piece.side = BLACK
    /\ ProbedMovesOf(SOLDIER) /\ probe.side = RED /\ probe.row = 4 /\ probe.col = 0
    /\ probe.result = {<<3, 0>>, <<4, 1>>}

\* C22: the destinations of a king are the cells next to it along its row or its
\* column that lie in its own palace (columns 3 to 5; rows 0 to 2 for black, 7 to 9
\* for red) and are empty or hold an enemy piece, and the cell of the other king
\* exactly when that king stands on the same column with no piece between the two.
C22_KingDestinations ==
    ProbedMovesOf(KING) =>
        LET at == <<probe.row, probe.col>>
            palace == {t \in Cells : /\ t[2] \in 3 .. 5
                                     /\ IF probe.side = RED THEN t[1] \in 7 .. 9
                                        ELSE t[1] \in 0 .. 2}
        IN  probe.result =
                {t \in Cells :
                    \/ /\ t \in palace
                       /\ \/ t[1] = at[1] /\ t[2] \in {at[2] - 1, at[2] + 1}
                          \/ t[2] = at[2] /\ t[1] \in {at[1] - 1, at[1] + 1}
                       /\ Empty(t) \/ EnemyOn(t, probe.side)
                    \/ /\ board[t[1]][t[2]] = p(KING, Opp(probe.side))
                       /\ t[2] = at[2]
                       /\ Screens(at, t) = 0}

\* the red king on (8,4) facing the black king on (2,4) along the empty column 4,
\* an own piece on (8,3) and an enemy piece on (8,5): it may take the piece and the
\* king, and may not step on (8,3)
C22_Witness ==
    /\ ProbedMovesOf(KING) /\ probe.side = RED /\ probe.row = 8 /\ probe.col = 4
    /\ board[2][4] = p(KING, BLACK)
    /\ ~Empty(<<8, 3>>) /\ ~EnemyOn(<<8, 3>>, RED) /\ EnemyOn(<<8, 5>>, RED)
    /\ probe.result = {<<7, 4>>, <<9, 4>>, <<8, 5>>, <<2, 4>>}

\* C23: in every state reached from reset by makeMove and undoMove every king and
\* every advisor stands in the palace of its side (columns 3 to 5; rows 7 to 9 for
\* red, 0 to 2 for black) and every elephant stands on its side of the river (rows
\* 5 to 9 for red, 0 to 4 for black).
C23_ConfinedPiecesStayHome ==
    \A cell \in Cells :
        LET piece == board[cell[1]][cell[2]]
        IN  /\ piece.type \in {KING, ADVISOR} =>
                  /\ cell[2] \in 3 .. 5
                  /\ IF piece.side = RED THEN cell[1] \in 7 .. 9 ELSE cell[1] \in 0 .. 2
            /\ piece.type = ELEPHANT =>
                  IF piece.side = RED THEN cell[1] \in 5 .. 9 ELSE cell[1] \in 0 .. 4

\* the red elephant has come to its bank of the river on (5,2), the black advisor
\* has stepped between the kings, the red king has left its first cell, and a call
\* of makeMove has just been refused
C23_Witness ==
    /\ board[5][2] = p(ELEPHANT, RED)
    /\ board[1][4] = p(ADVISOR, BLACK)
    /\ board[8][4] = p(KING, RED)
    /\ Len(moveHistory) >= 3
    /\ lastCall.op = "makeMove" /\ ~lastCall.ret

\* the callback of the bot's animation runs in this step
BotMoveApplied == app.frames # <<>> /\ app'.frames = Tail(app.frames)

\* C25: The moves the bot expands for a side at a node of its search are the moves
\* the legality filter of the game yields for that position and side, repeated
\* check patterns excluded once the side has checked three times in a row: when
\* the move found is made in the game it was searched in, the moves expanded for
\* the player behind it are the player's legal moves.
C25_BotExpandsTheLegalMoves ==
    [][(/\ BotMoveApplied
        /\ app.found.done
        /\ app.found.on = Snapshot
        /\ app.found.result = Head(app.frames).move
        /\ lastCall'.ret)
       => app.found.replies = getAllLegalMoves(currentTurn)']_vars

\* C26: An AI created with depth 2, 3 or 4 evaluates that many plies below the
\* root.
C26_DepthConfigurable ==
    (app.mode = "pvsbot" /\ app.found.done /\ app.found.result # NoMove)
        => app.found.plies = app.aiDepth

\* C27: The callback of the bot's animation passes the move to makeMove only in
\* the game the bot was asked to move in.
C27_StaleResultDiscarded ==
    [][BotMoveApplied => Snapshot = Head(app.frames).started]_vars

C24_WitnessNull ==
    /\ probe.fn = "getBestMove" /\ probe.result = NoMove
    /\ isInCheck(board, probe.side)

C28_DisconnectFreesRoom ==
    \A socket \in Sockets :
        server.listening /\ server.sockets[socket].state = "gone" =>
            \A id \in DOMAIN server.rooms :
                \A i \in 1 .. Len(server.rooms[id].players) :
                    server.rooms[id].players[i].id # socket

\* the events of one kind sent to a socket for a room, in the order sent
SentFor(event, roomId, socket) ==
    SelectSeq(server.sent,
              LAMBDA e : e.event = event /\ e.room = roomId /\ e.to = socket)

\* the moves accepted from a socket for a room, in the order accepted
AcceptedFrom(roomId, socket) ==
    SelectSeq(server.accepted, LAMBDA a : a.room = roomId /\ a.from = socket)

\* the rooms that started, with the two players of each
Opened == {server.opened[i] : i \in 1 .. Len(server.opened)}
OtherPlayer(o, socket) == IF socket = o.red THEN o.black ELSE o.red

\* C29: When a player of a started room disconnects while the other player is
\* connected, the other player has been sent opponent-disconnect for that room
\* once, and no socket is ever sent it twice for a room.
C29_OpponentDisconnectOnce ==
    /\ [](server.listening =>
            \A o \in Opened : \A socket \in {o.red, o.black} :
                Len(SentFor("opponent-disconnect", o.room, socket)) <= 1)
    /\ [][server.listening =>
            \A o \in Opened : \A socket \in {o.red, o.black} :
                (/\ server.sockets[socket].state = "connected"
                 /\ server'.sockets[socket].state = "gone"
                 /\ server.sockets[OtherPlayer(o, socket)].state = "connected"
                 /\ Len(SentFor("opponent-disconnect", o.room, socket)) = 0)
                => Len(SentFor("opponent-disconnect", o.room, OtherPlayer(o, socket))') = 1]_vars

\* b ends with a
IsSuffix(a, b) ==
    /\ Len(a) <= Len(b)
    /\ \A i \in 1 .. Len(a) : a[i] = b[Len(b) - Len(a) + i]

\* an entry of room.moves without its side
Coordinates(m) ==
    [fromRow |-> m.fromRow, fromCol |-> m.fromCol, toRow |-> m.toRow, toCol |-> m.toCol]

PlayerRooms(socket) ==
    {id \in DOMAIN server.rooms :
        \E i \in 1..Len(server.rooms[id].players) :
            server.rooms[id].players[i].id = socket}

\* C31: each socket is listed as a player in at most one room, and its
\* socket.roomId is the one room in which it is a player
C31_OneRoomPerSocket ==
    \A socket \in Sockets :
        /\ Cardinality(PlayerRooms(socket)) <= 1
        /\ PlayerRooms(socket) # {} =>
               PlayerRooms(socket) = {server.sockets[socket].roomId}

\* C36: create-room never stores its room under the id of an existing room,
\* whatever id generateRoomId produces
C36_CreateNeverReplaces ==
    [][\A socket \in Sockets, roomId \in RoomIds :
          on_create_room_with(socket, roomId) => roomId \notin DOMAIN server.rooms]_vars

RoomShape(room) ==
    /\ Len(room.players) \in {1, 2}
    /\ room.started <=> (Len(room.players) = 2)
    /\ room.players[1].side = RED
    /\ Len(room.players) = 2 =>
           /\ room.players[2].side = BLACK
           /\ room.players[2].id # room.players[1].id

\* the only change to the players of a room is a second player, different
\* from the first, entering a room that had one
OnlyAcceptedJoins ==
    \A id \in DOMAIN server.rooms \cap DOMAIN server'.rooms :
        server'.rooms[id].players # server.rooms[id].players =>
            /\ Len(server.rooms[id].players) = 1
            /\ Len(server'.rooms[id].players) = 2
            /\ server'.rooms[id].players[1] = server.rooms[id].players[1]
            /\ server'.rooms[id].players[2].id # server.rooms[id].players[1].id

\* C37: every room has one or two players, is started exactly when it has
\* two, its first player is red and its second black, the two are different
\* sockets; a room that is full, or that the joining socket created, is not
\* changed by the join-room that is answered with join-error
C37_RoomShape ==
    /\ [](\A id \in DOMAIN server.rooms : RoomShape(server.rooms[id]))
    /\ [][OnlyAcceptedJoins]_vars

\* a started room, a waiting room, and a connected socket that is a player of
\* neither: its join-room to the first gets 'Room is full'
C37_Witness ==
    \E full \in DOMAIN server.rooms, waiting \in DOMAIN server.rooms, socket \in Sockets :
        /\ server.rooms[full].started
        /\ ~server.rooms[waiting].started
        /\ server.sockets[socket].state = "connected"
        /\ PlayerRooms(socket) = {}

\* C38: the server clears room.moves and emits game-restart only for an
\* accept-restart of a player whose opponent asked for the restart and was
\* not answered yet
C38_RestartOnlyOnRequest ==
    [][\A socket \in Sockets :
          LET roomId == server.sockets[socket].roomId
          IN  (/\ on_accept_restart(socket)
               /\ roomId # NoRoomId
               /\ roomId \in DOMAIN server.rooms)
              => \E other \in Sockets \ {socket} :
                     /\ roomId \in PlayerRooms(other)
                     /\ <<roomId, other>> \in server.asked]_vars

\* the legal moves of the side to move after which the opponent is in check
CheckingMoves ==
    {m \in getAllLegalMoves(currentTurn) :
        isInCheck(applyMove(cloneBoard(board), m.fromRow, m.fromCol, m.toRow, m.toCol),
                  Opp(currentTurn))}

\* C35: whenever checkLimitReached is true, the side to move has no legal
\* move that puts the opponent in check
C35_NoCheckAtTheLimit ==
    checkLimitReached => CheckingMoves = {}

\* the board after a move of the search
Child(b, move) ==
    AI_applyMove(AI_cloneBoard(b), move.fromRow, move.fromCol, move.toRow, move.toCol)

\* minimax of the same depth over the same moves and the same evaluate, every
\* move of every node searched
RECURSIVE PlainMinimax(_, _, _, _)
PlainMinimax(b, depth, isMaximizing, aiSide) ==
    IF depth = 0 THEN evaluate(b, aiSide)
    ELSE TheOne({
            IF Len(moves) = 0
            THEN (IF isMaximizing THEN -99999 + (MAX_DEPTH - depth)
                  ELSE 99999 - (MAX_DEPTH - depth))
            ELSE TheOne({
                    IF isMaximizing
                    THEN CHOOSE v \in values : \A w \in values : w <= v
                    ELSE CHOOSE v \in values : \A w \in values : v <= w
                    : values \in {{PlainMinimax(Child(b, moves[i]), depth - 1,
                                                ~isMaximizing, aiSide)
                                   : i \in 1 .. Len(moves)}} })
            : moves \in {getAllMovesForBoard(b, IF isMaximizing THEN aiSide
                                                ELSE Opp(aiSide))} })

\* the moves of the root in the order getBestMove tries them
RootMoves ==
    SortCapturesFirst(board, AllLegalMovesInOrder(board, consecutiveChecks,
                                                  checkHistory, probe.side))

\* the scores of the root moves when nothing is pruned
PlainScores(moves) ==
    [i \in 1 .. Len(moves) |->
        PlainMinimax(Child(board, moves[i]), MAX_DEPTH - 1, FALSE, probe.side)]

\* C33: the move of getBestMove has the greatest score an unpruned minimax of
\* the same depth gives to a root move, and is the first such move in the
\* capture-sorted order
C33_PruningKeepsTheResult ==
    (probe.fn = "getBestMove" /\ probe.result # NoMove) =>
        \E moves \in {RootMoves} : \E score \in {PlainScores(moves)} :
            \E i \in 1 .. Len(moves) :
                /\ moves[i] = probe.result
                /\ \A j \in 1 .. Len(moves) : score[j] <= score[i]
                /\ \A j \in 1 .. (i - 1) : score[j] < score[i]

\* after the second reply of the opponent the loop over the bot's moves stops
\* at its first move, whose score reaches what the first reply already holds
\* the bot to; the other moves of that node are not searched
CutOffBelow(b, aiSide) ==
    \E replies \in {getAllMovesForBoard(b, Opp(aiSide))} :
        /\ Len(replies) >= 2
        /\ \E beta \in {PlainMinimax(Child(b, replies[1]), MAX_DEPTH - 2, TRUE, aiSide)} :
              \E again \in {getAllMovesForBoard(Child(b, replies[2]), aiSide)} :
                  /\ Len(again) > 1
                  /\ evaluate(Child(Child(b, replies[2]), again[1]), aiSide) >= beta

\* a search with a cut-off in it, several root moves of the greatest score, and
\* a result that is not the first move tried
C33_Witness ==
    /\ probe.fn = "getBestMove" /\ probe.result # NoMove
    /\ \E moves \in {RootMoves} : \E score \in {PlainScores(moves)} :
          /\ probe.result # moves[1]
          /\ \E i, j \in 1 .. Len(moves) :
                i # j /\ score[i] = score[j] /\ \A k \in 1 .. Len(moves) : score[k] <= score[i]
          /\ \E i \in 1 .. Len(moves) : CutOffBelow(Child(board, moves[i]), probe.side)

\* the pieces a side starts with
InitialCount ==
    [king |-> 1, advisor |-> 2, elephant |-> 2, horse |-> 2, chariot |-> 2,
     cannon |-> 2, soldier |-> 5]

\* the most evaluate adds for one piece of a type: its value, the greatest entry
\* of its bonus table, and for a soldier the advance bonus on the last row
MostFor(type) ==
    PIECE_VALUES[type]
    + (IF type \in DOMAIN POSITION_BONUS
       THEN CHOOSE v \in {POSITION_BONUS[type][r + 1][c + 1] : r \in RowIdx, c \in ColIdx} :
                \A r \in RowIdx, c \in ColIdx : POSITION_BONUS[type][r + 1][c + 1] <= v
       ELSE 0)
    + (IF type = SOLDIER THEN SOLDIER_ADVANCE_BONUS + 4 * 10 ELSE 0)

\* no board with at most the initial pieces of each side is evaluated higher
MaterialBound ==
    InitialCount[KING] * MostFor(KING) + InitialCount[ADVISOR] * MostFor(ADVISOR)
    + InitialCount[ELEPHANT] * MostFor(ELEPHANT) + InitialCount[HORSE] * MostFor(HORSE)
    + InitialCount[CHARIOT] * MostFor(CHARIOT) + InitialCount[CANNON] * MostFor(CANNON)
    + InitialCount[SOLDIER] * MostFor(SOLDIER)

\* one ply below the root of a search for aiSide: the opponent has no move
MatedAtPly1(b, aiSide) ==
    {m \in Range(AllLegalMovesInOrder(b, consecutiveChecks, checkHistory, aiSide)) :
        Len(getAllMovesForBoard(Child(b, m), Opp(aiSide))) = 0}

\* two plies below the root: the bot has no move
MatedAtPly2(b, aiSide) ==
    {pair \in UNION {{<<m, r>> : r \in Range(getAllMovesForBoard(Child(b, m), Opp(aiSide)))}
                     : m \in Range(AllLegalMovesInOrder(b, consecutiveChecks,
                                                        checkHistory, aiSide))} :
        Len(getAllMovesForBoard(Child(Child(b, pair[1]), pair[2]), aiSide)) = 0}

\* three plies below the root, where the search stops: the opponent has no move
MatedAtPly3(b, aiSide) ==
    {line \in UNION {{<<pair[1], pair[2], m>> :
                         m \in Range(getAllMovesForBoard(Child(Child(b, pair[1]), pair[2]),
                                                         aiSide))}
                     : pair \in UNION {{<<m, r>> :
                                          r \in Range(getAllMovesForBoard(Child(b, m),
                                                                          Opp(aiSide)))}
                                      : m \in Range(AllLegalMovesInOrder(b, consecutiveChecks,
                                                                         checkHistory, aiSide))}} :
        Len(getAllMovesForBoard(Child(Child(Child(b, line[1]), line[2]), line[3]),
                                Opp(aiSide))) = 0}

\* C34: in a search for the side to move, a node k plies below the root
\* whose side has no move scores -99999 + k
\* when that side is the bot and 99999 - k when it is the opponent; the fewer
\* plies, the higher a mate given scores and the lower a mate suffered; every
\* such score is beyond what evaluate gives a board of at most the initial
\* pieces
C34_MateScores ==
    /\ \A aiSide \in {currentTurn} :
          /\ \A m \in MatedAtPly1(board, aiSide) :
                minimax(Child(board, m), MAX_DEPTH - 1, 0 - Infinity, Infinity,
                        FALSE, aiSide) = 99999 - 1
          /\ \A pair \in MatedAtPly2(board, aiSide) :
                minimax(Child(Child(board, pair[1]), pair[2]), MAX_DEPTH - 2,
                        0 - Infinity, Infinity, TRUE, aiSide) = -99999 + 2
          /\ \A line \in MatedAtPly3(board, aiSide) :
                minimax(Child(Child(Child(board, line[1]), line[2]), line[3]),
                        MAX_DEPTH - 3, 0 - Infinity, Infinity, FALSE, aiSide) = 99999 - 3
          /\ evaluate(board, aiSide) <= MaterialBound
          /\ 0 - evaluate(board, aiSide) <= MaterialBound
    /\ \A k \in 0 .. MAX_DEPTH :
          /\ MaterialBound < 99999 - k
          /\ \A j \in 0 .. MAX_DEPTH :
                j < k => (99999 - j > 99999 - k /\ -99999 + k > -99999 + j)

\* C32: getLegalMoves, getAllLegalMoves and getBestMove with all of its search
\* leave game.board, the arrays behind it and every other field of the game as
\* they were: each move is tried on a copy
C32_AnalysisLeavesTheGame ==
    [][probe' # probe =>
          /\ board' = board
          /\ objects' = objects
          /\ Snapshot' = Snapshot]_vars

\* a search has returned one of several moves, among them a capture, from a
\* position both sides have moves in
C32_Witness ==
    /\ probe.fn = "getBestMove" /\ probe.result # NoMove
    /\ objects.followed
    /\ \E m \in getAllLegalMoves(probe.side) : board[m.toRow][m.toCol] # Null
    /\ getAllLegalMoves(Opp(probe.side)) # {}

\* a move of the bot is on its way: botThinking is set and the timer of
\* getBestMove or the animation of its result is pending
BotMovePending ==
    /\ app.botThinking
    /\ app.timers # <<>> \/ app.frames # <<>>

\* C40: in a game against the bot that is not over, it is the player's turn or
\* a move of the bot is pending
C40_NeverStuck ==
    (app.mode = "pvsbot" /\ ~gameOver) =>
        (currentTurn = app.playerSide \/ BotMovePending)

\* no message is on its way and no animation is running
Quiet ==
    \A side \in SIDE :
        /\ server.up[side] = <<>>
        /\ server.down[side] = <<>>
        /\ app.peers[side].frames = <<>>

\* C39: whenever no message is in flight and no animation callback is pending,
\* the games of the two pages have the same board and the same currentTurn
C39_PeersAgree ==
    (app.mode = "online" /\ Quiet) =>
        /\ app.peers[RED].game.board = app.peers[BLACK].game.board
        /\ app.peers[RED].game.currentTurn = app.peers[BLACK].game.currentTurn
====
